---------------------------- MODULE Spec2Model ----------------------------
(***************************************************************************)
(* Model of the flash endpoints (pt_flash, ph_flash, calculate,            *)
(* ph_flash_olga) and of the OLGA TAB formatter (olga_formatter.py).       *)
(*                                                                         *)
(* Numbers.  A Python float is modelled as a reduced fraction               *)
(* [n |-> numerator, d |-> denominator] with d > 0; the three non-finite    *)
(* floats are the records with d = 0 (NaN: n = 0, +inf: n = 1,              *)
(* -inf: n = -1).  Arithmetic is exact, so binary rounding error of the     *)
(* floating point unit is not represented.                                  *)
(*                                                                         *)
(* Text.  A Python str is a sequence of one-character strings.              *)
(***************************************************************************)
EXTENDS Integers, Sequences, FiniteSets, TLC

(***************************************************************************)
(* Bounds of the model.                                                    *)
(***************************************************************************)
\* longest value list handed to format_grid_values in SpecFormat
MaxVals == 2
\* a request's x-axis range ends at most MaxXSteps resolution steps after
\* its start, its y-axis range at most MaxYSteps steps
MaxXSteps == 2
MaxYSteps == 1

\* the encoder is given at most MaxResults results on a grid of at most
\* MaxNx by MaxNy points
MaxResults == 2
MaxNx == 2
MaxNy == 2
\* the length of the longest list of values given to format_grid_values
MaxLong == 11
\* the vapor fractions given to convert_vapor_fraction_to_mass run over the
\* quarters from -MaxQuarters / 4 to MaxQuarters / 4
MaxQuarters == 24

(***************************************************************************)
(* Floats as fractions.                                                    *)
(***************************************************************************)
RECURSIVE GCD(_, _)
GCD(a, b) == IF b = 0 THEN a ELSE GCD(b, a % b)

IAbs(x) == IF x < 0 THEN -x ELSE x

\* the reduced fraction n/d (d # 0)
Frac(n, d) ==
    LET g == GCD(IAbs(n), IAbs(d))
        s == IF d < 0 THEN -1 ELSE 1
    IN  [n |-> s * (n \div g), d |-> s * (d \div g)]

Num(i) == [n |-> i, d |-> 1]
NaN == [n |-> 0, d |-> 0]
PosInf == [n |-> 1, d |-> 0]
NegInf == [n |-> -1, d |-> 0]

IsFinite(x) == x.d # 0
IsNaN(x) == x.d = 0 /\ x.n = 0

\* x < y as IEEE-754 orders floats: every comparison with NaN is false
FLt(x, y) ==
    IF IsNaN(x) \/ IsNaN(y) THEN FALSE
    ELSE IF ~IsFinite(x) THEN x.n < 0 /\ y # x
    ELSE IF ~IsFinite(y) THEN y.n > 0
    ELSE x.n * y.d < y.n * x.d

FLe(x, y) == IF IsNaN(x) \/ IsNaN(y) THEN FALSE ELSE FLt(x, y) \/ x = y

FAbs(x) == [n |-> IAbs(x.n), d |-> x.d]

FNeg(x) == [n |-> -x.n, d |-> x.d]

\* finite arithmetic; a non-finite operand is propagated (NaN stays NaN)
FAdd(x, y) ==
    IF ~IsFinite(x) THEN x
    ELSE IF ~IsFinite(y) THEN y
    ELSE Frac(x.n * y.d + y.n * x.d, x.d * y.d)

FSub(x, y) == FAdd(x, FNeg(y))

FMul(x, y) ==
    IF IsNaN(x) \/ IsNaN(y) THEN NaN
    ELSE IF ~IsFinite(x) \/ ~IsFinite(y)
         THEN (IF x.n = 0 \/ y.n = 0 THEN NaN
               ELSE IF (x.n < 0) = (y.n < 0) THEN PosInf ELSE NegInf)
    ELSE Frac(x.n * y.n, x.d * y.d)

\* x / y for finite x and finite nonzero y
FDiv(x, y) == Frac(x.n * y.d, x.d * y.n)

\* floor and ceiling of a finite fraction (\div rounds toward minus infinity)
FFloor(x) == x.n \div x.d
FCeil(x) == -((-x.n) \div x.d)

(***************************************************************************)
(* Text helpers: str.split, str.replace, str.ljust, str.rstrip.            *)
(***************************************************************************)
Digits == <<"0", "1", "2", "3", "4", "5", "6", "7", "8", "9">>
DigitChar(k) == Digits[k + 1]

\* decimal digits of a natural number, most significant first
RECURSIVE NatChars(_)
NatChars(k) == IF k < 10 THEN <<DigitChar(k)>>
               ELSE NatChars(k \div 10) \o <<DigitChar(k % 10)>>

\* s.split(c): the pieces of s between the occurrences of the character c
RECURSIVE SplitFrom(_, _, _)
SplitFrom(s, c, cur) ==
    IF s = <<>> THEN <<cur>>
    ELSE IF Head(s) = c THEN <<cur>> \o SplitFrom(Tail(s), c, <<>>)
    ELSE SplitFrom(Tail(s), c, Append(cur, Head(s)))

Split(s, c) == SplitFrom(s, c, <<>>)

\* s.replace(a + b, ""): every occurrence of the two characters a b removed,
\* scanning from the left
RECURSIVE RemovePair(_, _, _)
RemovePair(s, a, b) ==
    IF Len(s) < 2 THEN s
    ELSE IF s[1] = a /\ s[2] = b THEN RemovePair(Tail(Tail(s)), a, b)
    ELSE <<Head(s)>> \o RemovePair(Tail(s), a, b)

\* s.replace(c, "")
RemoveChar(s, c) == SelectSeq(s, LAMBDA ch : ch # c)

\* s.ljust(w, c)
RECURSIVE Ljust(_, _, _)
Ljust(s, w, c) == IF Len(s) >= w THEN s ELSE Ljust(Append(s, c), w, c)

\* s.rstrip() for a string whose only whitespace is the blank
RECURSIVE RStrip(_)
RStrip(s) ==
    IF s = <<>> THEN s
    ELSE IF s[Len(s)] = " " THEN RStrip(SubSeq(s, 1, Len(s) - 1))
    ELSE s

(***************************************************************************)
(* format_grid_values (olga_formatter.py 600-647).                          *)
(***************************************************************************)
\* values_per_line, the default of the parameter
ValuesPerLine == 5

\* width the mantissa is padded to by ljust
MantissaWidth == 6

\* number of decimals asked of the E format (".6E")
SciDecimals == 6

RECURSIVE Pow10(_)
Pow10(k) == IF k = 0 THEN 1 ELSE 10 * Pow10(k - 1)

\* n/d > 0 scaled by a power of ten into [1, 10): d <= n < 10 d, with the
\* decimal exponent e removed from it
RECURSIVE Normalise(_, _, _)
Normalise(n, d, e) ==
    IF n >= 10 * d THEN Normalise(n, 10 * d, e + 1)
    ELSE IF n < d THEN Normalise(10 * n, d, e - 1)
    ELSE [n |-> n, d |-> d, e |-> e]

\* the first k + 1 digits of n/d in [1, 10) as an integer q, with the
\* remainder r left after them (long division)
RECURSIVE LongDiv(_, _, _)
LongDiv(n, d, k) ==
    IF k = 0 THEN [q |-> n \div d, r |-> n % d]
    ELSE LET h == LongDiv(n, d, k - 1)
         IN  [q |-> 10 * h.q + ((10 * h.r) \div d), r |-> (10 * h.r) % d]

\* exponent part of the E format: sign and at least two digits
ExpChars(e) ==
    LET ds == NatChars(IAbs(e))
    IN  <<IF e < 0 THEN "-" ELSE "+">> \o (IF Len(ds) < 2 THEN <<"0">> \o ds ELSE ds)

\* f"{x:.6E}" for a float x >= 0 (or NaN): one digit, the point, six
\* decimals, E, the exponent; correctly rounded, ties to even
PyFormat6E(x) ==
    IF IsNaN(x) THEN <<"N", "A", "N">>
    ELSE IF ~IsFinite(x) THEN <<"I", "N", "F">>
    ELSE IF x.n = 0
         THEN <<"0", ".">> \o [i \in 1..SciDecimals |-> "0"] \o <<"E">> \o ExpChars(0)
    ELSE LET nm == Normalise(x.n, x.d, 0)
             ld == LongDiv(nm.n, nm.d, SciDecimals)
             up == 2 * ld.r > nm.d \/ (2 * ld.r = nm.d /\ ld.q % 2 = 1)
             q0 == IF up THEN ld.q + 1 ELSE ld.q
             carry == q0 = Pow10(SciDecimals + 1)
             q == IF carry THEN Pow10(SciDecimals) ELSE q0
             e == IF carry THEN nm.e + 1 ELSE nm.e
             ds == NatChars(q)
         IN  <<ds[1], ".">> \o Tail(ds) \o <<"E">> \o ExpChars(e)

Fail == [ok |-> FALSE, text |-> <<>>]

\* body of the loop over the values of a line (620-638): the text of one
\* value, or a failure when the unpacking of split('E') raises ValueError
FormatValue(val) ==
    LET neg == FLt(val, Num(0))
        sci_notation == PyFormat6E(IF neg THEN FAbs(val) ELSE val)
        parts == Split(sci_notation, "E")
    IN  IF Len(parts) # 2 THEN Fail
        ELSE LET mantissa == Ljust(RemoveChar(RemovePair(parts[1], "0", "."), "."),
                                   MantissaWidth, "0")
                 exponent == parts[2]
             IN  [ok |-> TRUE,
                  text |-> (IF neg THEN <<"-">> ELSE <<>>) \o <<".">> \o mantissa
                           \o <<"E">> \o exponent]

Blank4 == <<" ", " ", " ", " ">>

\* line += formatted_val + "    " (640), unless a value has raised
AddValue(front, last) ==
    IF ~front.ok \/ ~last.ok THEN Fail
    ELSE [ok |-> TRUE, text |-> front.text \o last.text \o Blank4]

\* one line: four blanks, every value followed by four blanks (617-640)
RECURSIVE FormatLine(_)
FormatLine(line_values) ==
    IF line_values = <<>> THEN [ok |-> TRUE, text |-> Blank4]
    ELSE AddValue(FormatLine(SubSeq(line_values, 1, Len(line_values) - 1)),
                  FormatValue(line_values[Len(line_values)]))

\* formatted += line.rstrip() + "\n" (641), unless a value has raised
AddLine(line, rest) ==
    IF ~line.ok \/ ~rest.ok THEN [ok |-> FALSE, lines |-> <<>>]
    ELSE [ok |-> TRUE, lines |-> <<RStrip(line.text)>> \o rest.lines]

LineLengthSix(values_array) ==
    IF Len(values_array) < 6 THEN Len(values_array) ELSE 6

\* the number of values on the next line of `values_array`
LineLength(values_array) ==
    IF Len(values_array) < ValuesPerLine THEN Len(values_array) ELSE ValuesPerLine

\* the loop over the lines (615-641): the lines of the text, each without
\* its newline, values_array[i : i + values_per_line] for i = 0, 5, 10, ...
RECURSIVE FormatLines(_)
FormatLines(values_array) ==
    IF values_array = <<>> THEN [ok |-> TRUE, lines |-> <<>>]
    ELSE AddLine(FormatLine(SubSeq(values_array, 1, LineLength(values_array))),
                 FormatLines(SubSeq(values_array, LineLength(values_array) + 1,
                                    Len(values_array))))

\* "    .000000E+00\n", the text returned by the except branch (644-647)
FallbackLines == << Blank4 \o <<".", "0", "0", "0", "0", "0", "0", "E", "+", "0", "0">> >>

\* the text of the try branch (643) or that of the except branch (647)
ReturnedLines(formatted) == IF formatted.ok THEN formatted.lines ELSE FallbackLines

\* format_grid_values(values): the lines of the returned text
format_grid_values(values) == ReturnedLines(FormatLines(values))

(***************************************************************************)
(* Requests: the JSON body as a Python dict, a function from its keys.     *)
(***************************************************************************)
Has(dict, key) == key \in DOMAIN dict

\* dict.get(key, default)
Get(dict, key, default) == IF Has(dict, key) THEN dict[key] ELSE default

\* the dict without one key
Drop(dict, key) == [k \in DOMAIN dict \ {key} |-> dict[k]]

EmptyDict == [k \in {} |-> 0]

Endpoints == {"pt_flash", "ph_flash", "calculate", "ph_flash_olga"}

\* name of the second (inner-axis) variable of an endpoint's request
YName(endpoint) == IF endpoint \in {"ph_flash", "ph_flash_olga"} THEN "enthalpy"
                   ELSE "temperature"

\* compositions a request may carry: fractions summing to 1, to 0.99, to
\* 1 + 5e-7 (inside the tolerance), to 1.1, and an entry without a fraction
Compositions ==
    { << [fluid |-> <<"C", "O", "2">>, fraction |-> Frac(9, 10)],
         [fluid |-> <<"M", "E", "T", "H", "A", "N", "E">>, fraction |-> Frac(1, 10)] >>,
      << [fluid |-> <<"C", "O", "2">>, fraction |-> Frac(9, 10)],
         [fluid |-> <<"M", "E", "T", "H", "A", "N", "E">>, fraction |-> Frac(9, 100)] >>,
      << [fluid |-> <<"C", "O", "2">>, fraction |-> Frac(9, 10)],
         [fluid |-> <<"W", "A", "T", "E", "R">>, fraction |-> Frac(1000005, 10000000)] >>,
      << [fluid |-> <<"C", "O", "2">>, fraction |-> Frac(11, 10)] >>,
      << [fluid |-> <<"C", "O", "2">>, fraction |-> Frac(1, 1)], [fluid |-> <<"M", "E", "T", "H", "A", "N", "E">>] >> }

\* what a request may lack
Shapes == {"full", "no_composition", "no_x", "no_y", "no_properties"}

XFrom == Num(1)
XRes == Num(5)
YFroms == {Num(0), Num(5)}
YRes == Num(5)

AxisSpec(from, to, res) ==
    [range |-> [from |-> from, to |-> to], resolution |-> res]

\* a request in the layout of pt_flash, ph_flash and ph_flash_olga
\* (composition / variables / calculation) or of calculate (flat)
Request(endpoint, comp, shape, xto, yfrom, yto) ==
    LET vars0 == [v \in {"pressure", YName(endpoint)} |->
                     IF v = "pressure" THEN AxisSpec(XFrom, xto, XRes)
                     ELSE AxisSpec(yfrom, yto, YRes)]
        vars1 == IF shape = "no_y" THEN Drop(vars0, YName(endpoint)) ELSE vars0
        nested == [composition |-> comp,
                   variables |-> vars1,
                   calculation |-> [properties |->
                       IF shape = "no_properties" THEN <<>> ELSE <<"density">>]]
        flat == [composition |-> comp,
                 pressure_range |-> [from |-> XFrom, to |-> xto],
                 temperature_range |-> [from |-> yfrom, to |-> yto],
                 pressure_resolution |-> XRes,
                 temperature_resolution |-> YRes,
                 properties |-> <<"density">>]
    IN  IF endpoint = "calculate"
        THEN CASE shape = "no_composition" -> Drop(flat, "composition")
               [] shape = "no_x" -> Drop(flat, "pressure_range")
               [] shape = "no_y" -> Drop(flat, "temperature_range")
               [] shape = "no_properties" -> Drop(flat, "properties")
               [] OTHER -> flat
        ELSE CASE shape = "no_composition" -> Drop(nested, "composition")
               [] shape = "no_x" -> Drop(nested, "variables")
               [] OTHER -> nested

\* the upper ends of the pressure range: a whole number of steps above
\* `from` (none included), one unit short of a step above it, and a step
\* below it
XTos ==
    { FAdd(XFrom, FMul(Num(kx), XRes)) : kx \in 0..MaxXSteps }
    \cup { FSub(FAdd(XFrom, XRes), Num(1)), FSub(XFrom, XRes) }

Requests(endpoint) ==
    { Request(endpoint, comp, shape, xto, yfrom, FAdd(yfrom, FMul(Num(ky), YRes))) :
        comp \in Compositions, shape \in Shapes, xto \in XTos,
        yfrom \in YFroms, ky \in 0..MaxYSteps }

(***************************************************************************)
(* Responses and validation (the head of each handler).                    *)
(***************************************************************************)
Pass == [status |-> 0, error |-> ""]
Reject(status, error) == [status |-> status, error |-> error]

\* sum(comp['fraction'] for comp in composition) raises KeyError
FractionMissing(composition) ==
    \E i \in 1..Len(composition) : ~Has(composition[i], "fraction")

RECURSIVE FractionSum(_)
FractionSum(composition) ==
    IF composition = <<>> THEN Num(0)
    ELSE FAdd(composition[1].fraction, FractionSum(Tail(composition)))

\* 1e-6, the tolerance of validate_composition
Tolerance == Frac(1, 1000000)

validate_compositionAlways(composition) == TRUE

\* validate_composition (pt_flash.py 13-16, ph_flash.py 12-15,
\* calculate.py 12-15): abs(total - 1.0) < 1e-6
validate_composition(composition) ==
    FLt(FAbs(FSub(FractionSum(composition), Num(1))), Tolerance)

\* API.utils.helpers.validate_composition, used by ph_flash_olga
helpers_validate_composition(composition) ==
    FLt(FAbs(FSub(FractionSum(composition), Num(1))), Tolerance)

\* pt_flash 145-172 (yname = temperature) and ph_flash 135-156 (enthalpy)
flash_validate(data, yname) ==
    IF ~Has(data, "composition") THEN Reject(400, "Missing field: composition")
    ELSE IF ~Has(data, "variables") THEN Reject(400, "Missing field: variables")
    ELSE IF ~Has(data.variables, "pressure") \/ ~Has(data.variables, yname)
         THEN Reject(400, "Missing variables")
    ELSE IF Get(Get(data, "calculation", EmptyDict), "properties", <<>>) = <<>>
         THEN Reject(400, "No properties specified for calculation")
    ELSE IF FractionMissing(data.composition) THEN Reject(500, "KeyError")
    ELSE IF ~validate_composition(data.composition)
         THEN Reject(400, "Invalid composition - fractions must sum to 1")
    ELSE Pass

CalculateRequired == <<"composition", "pressure_range", "temperature_range",
                       "pressure_resolution", "temperature_resolution", "properties">>

\* calculate 131-142
calculate_validate(data) ==
    IF \E k \in 1..Len(CalculateRequired) : ~Has(data, CalculateRequired[k])
    THEN Reject(400, "Missing field")
    ELSE IF FractionMissing(data.composition) THEN Reject(500, "KeyError")
    ELSE IF ~validate_composition(data.composition)
         THEN Reject(400, "Invalid composition - fractions must sum to 1")
    ELSE Pass

\* _validate_request (ph_flash_olga.py 125-165) under the handler's except
\* clauses (114-122): ValueError is answered 400, anything else 500
_validate_request(data) ==
    IF ~Has(data, "composition") THEN Reject(400, "Missing field: composition")
    ELSE IF ~Has(data, "variables") THEN Reject(400, "Missing field: variables")
    ELSE IF FractionMissing(data.composition) THEN Reject(500, "KeyError")
    ELSE IF ~helpers_validate_composition(data.composition)
         THEN Reject(400, "Invalid composition - fractions must sum to 1")
    ELSE IF ~Has(data.variables, "pressure") \/ ~Has(data.variables, "enthalpy")
         THEN Reject(400, "Missing pressure or enthalpy variables")
    ELSE LET pressure_range == Get(data.variables.pressure, "range", EmptyDict)
             enthalpy_range == Get(data.variables.enthalpy, "range", EmptyDict)
         IN  IF ~(Has(pressure_range, "from") /\ Has(pressure_range, "to")
                  /\ Has(enthalpy_range, "from") /\ Has(enthalpy_range, "to"))
             THEN Reject(400, "Missing range parameters (from/to)")
             ELSE IF ~(Has(data.variables.pressure, "resolution")
                       /\ Has(data.variables.enthalpy, "resolution"))
                  THEN Reject(400, "Missing resolution parameters")
             ELSE Pass

\* the validation an endpoint runs before it touches the engine
Validate(endpoint, data) ==
    CASE endpoint = "pt_flash" -> flash_validate(data, "temperature")
      [] endpoint = "ph_flash" -> flash_validate(data, "enthalpy")
      [] endpoint = "calculate" -> calculate_validate(data)
      [] OTHER -> _validate_request(data)

(***************************************************************************)
(* Grids (np.arange) and the results of the flash loops.                   *)
(***************************************************************************)
\* 273.15, the offset between degrees Celsius and kelvin
Kelvin == Frac(27315, 100)

ARangeFloor(start, stop, step) ==
    LET q == FDiv(FSub(stop, start), step)
        len == IF q.n <= 0 THEN 0 ELSE FFloor(q)
    IN  [k \in 1..len |-> FAdd(start, FMul(Num(k - 1), step))]

\* np.arange(start, stop, step) for step # 0: ceil((stop - start) / step)
\* values start, start + step, ...; none when that count is not positive
ARange(start, stop, step) ==
    LET q == FDiv(FSub(stop, start), step)
        len == IF q.n <= 0 THEN 0 ELSE FCeil(q)
    IN  [k \in 1..len |-> FAdd(start, FMul(Num(k - 1), step))]

GridError(status, error) ==
    [status |-> status, error |-> error, outer |-> <<>>, inner |-> <<>>]

\* pt_flash 180-205 and 247-259: ranges with their defaults, the repair of
\* to <= from, then the equidistant grids; the outer axis is P_range (bar),
\* the inner one T_range (K)
pt_flash_grids(data) ==
    LET pressure_range == Get(data.variables.pressure, "range", EmptyDict)
        temperature_range == Get(data.variables.temperature, "range", EmptyDict)
        p_from == Get(pressure_range, "from", Num(1))
        p_to0 == Get(pressure_range, "to", Num(100))
        t_from == Get(temperature_range, "from", Num(0))
        t_to0 == Get(temperature_range, "to", Num(100))
        pressure_resolution == Get(data.variables.pressure, "resolution", Num(10))
        temperature_resolution == Get(data.variables.temperature, "resolution", Num(5))
        p_to == IF FLe(p_to0, p_from) THEN FAdd(p_from, pressure_resolution) ELSE p_to0
        t_to == IF FLe(t_to0, t_from) THEN FAdd(t_from, temperature_resolution) ELSE t_to0
    IN  IF pressure_resolution.n = 0 \/ temperature_resolution.n = 0
        THEN GridError(500, "ZeroDivisionError")
        ELSE [status |-> 0,
              outer |-> ARange(p_from, FAdd(p_to, pressure_resolution),
                               pressure_resolution),
              inner |-> ARange(FAdd(t_from, Kelvin),
                               FAdd(FAdd(t_to, Kelvin), temperature_resolution),
                               temperature_resolution)]

\* a value that all([...]) counts as true: present and not 0
Truthy(dict, key) == Has(dict, key) /\ dict[key].n # 0

\* ph_flash 161-188: the six parameters are required, then the grids; the
\* outer axis is P_range, the inner one h_range
ph_flash_grids(data) ==
    LET pressure_range == Get(data.variables.pressure, "range", EmptyDict)
        enthalpy_range == Get(data.variables.enthalpy, "range", EmptyDict)
    IN  IF ~(/\ Truthy(pressure_range, "from") /\ Truthy(pressure_range, "to")
             /\ Truthy(enthalpy_range, "from") /\ Truthy(enthalpy_range, "to")
             /\ Truthy(data.variables.pressure, "resolution")
             /\ Truthy(data.variables.enthalpy, "resolution"))
        THEN GridError(400, "Missing range or resolution parameters")
        ELSE [status |-> 0,
              outer |-> ARange(pressure_range["from"],
                               FAdd(pressure_range["to"],
                                    data.variables.pressure.resolution),
                               data.variables.pressure.resolution),
              inner |-> ARange(enthalpy_range["from"],
                               FAdd(enthalpy_range["to"],
                                    data.variables.enthalpy.resolution),
                               data.variables.enthalpy.resolution)]

\* calculate 150-159: the outer axis is T_range (K), the inner one P_range
calculate_grids(data) ==
    IF ~(/\ Has(data.temperature_range, "from") /\ Has(data.temperature_range, "to")
         /\ Has(data.pressure_range, "from") /\ Has(data.pressure_range, "to"))
       \/ data.temperature_resolution.n = 0 \/ data.pressure_resolution.n = 0
    THEN GridError(500, "KeyError or ZeroDivisionError")
    ELSE [status |-> 0,
          outer |-> ARange(FAdd(data.temperature_range["from"], Kelvin),
                           FAdd(FAdd(data.temperature_range["to"], Kelvin),
                                data.temperature_resolution),
                           data.temperature_resolution),
          inner |-> ARange(data.pressure_range["from"],
                           FAdd(data.pressure_range["to"], data.pressure_resolution),
                           data.pressure_resolution)]

Grids(endpoint, data) ==
    CASE endpoint = "pt_flash" -> pt_flash_grids(data)
      [] endpoint = "ph_flash" -> ph_flash_grids(data)
      [] OTHER -> calculate_grids(data)

\* the dict appended for a point that succeeded (pt_flash 272-277,
\* ph_flash 199-202, calculate 169-172), with the axis values that
\* calculate_properties echoes; the other properties of the engine are
\* left out.  o and n are the values of the outer and the inner loop
\* {'value': ..., 'unit': ...}, the form convert_property gives a property
Envelope(value, unit) == [value |-> value, unit |-> unit]

FlashResultRowFromCounter(endpoint, idx, i, j, o, n) ==
    CASE endpoint = "pt_flash" ->
            [index |-> Num(idx), p_idx |-> Num(idx), t_idx |-> Num(j),
             pressure |-> Envelope(o, "bar"),
             temperature |-> Envelope(FSub(n, Kelvin), "C")]
      [] endpoint = "ph_flash" ->
            [index |-> Num(idx), pressure |-> Envelope(o, "bar"),
             enthalpy |-> Envelope(n, "J/mol")]
      [] OTHER ->
            [index |-> Num(idx), temperature |-> Envelope(FSub(o, Kelvin), "C"),
             pressure |-> Envelope(n, "bar")]

FlashResult(endpoint, idx, i, j, o, n) ==
    CASE endpoint = "pt_flash" ->
            [index |-> Num(idx), p_idx |-> Num(i), t_idx |-> Num(j),
             pressure |-> Envelope(o, "bar"),
             temperature |-> Envelope(FSub(n, Kelvin), "C")]
      [] endpoint = "ph_flash" ->
            [index |-> Num(idx), pressure |-> Envelope(o, "bar"),
             enthalpy |-> Envelope(n, "J/mol")]
      [] OTHER ->
            [index |-> Num(idx), temperature |-> Envelope(FSub(o, Kelvin), "C"),
             pressure |-> Envelope(n, "bar")]

(***************************************************************************)
(* Python values inside a result dict.  A number is a fraction             *)
(* [n, d]; None is [none |-> TRUE]; a str is [s |-> its characters]; a     *)
(* list is [list |-> its items]; a dict is a function from its keys, so    *)
(* {'value': v, 'unit': u} is [value |-> v, unit |-> u].                   *)
(***************************************************************************)
None == [none |-> TRUE]
Str(chars) == [s |-> chars]
List(items) == [list |-> items]

IsNum(v) == DOMAIN v = {"n", "d"}
IsNone(v) == DOMAIN v = {"none"}
IsStr(v) == DOMAIN v = {"s"}
IsList(v) == DOMAIN v = {"list"}

UpperCase == <<"A", "B", "C", "D", "E", "F", "G", "H", "I", "J", "K", "L", "M",
               "N", "O", "P", "Q", "R", "S", "T", "U", "V", "W", "X", "Y", "Z">>
LowerCase == <<"a", "b", "c", "d", "e", "f", "g", "h", "i", "j", "k", "l", "m",
               "n", "o", "p", "q", "r", "s", "t", "u", "v", "w", "x", "y", "z">>

\* str.lower() and str.upper()
Lower(chars) ==
    [i \in 1..Len(chars) |->
        IF \E k \in 1..26 : UpperCase[k] = chars[i]
        THEN LowerCase[CHOOSE k \in 1..26 : UpperCase[k] = chars[i]]
        ELSE chars[i]]

Upper(chars) ==
    [i \in 1..Len(chars) |->
        IF \E k \in 1..26 : LowerCase[k] = chars[i]
        THEN UpperCase[CHOOSE k \in 1..26 : LowerCase[k] = chars[i]]
        ELSE chars[i]]

\* sub in chars
Contains(chars, sub) ==
    \E i \in 0..(Len(chars) - Len(sub)) : SubSeq(chars, i + 1, i + Len(sub)) = sub

\* the outcome of an expression that may raise: ok with a value, or not
Raised == [ok |-> FALSE, v |-> 0]
Value(v) == [ok |-> TRUE, v |-> v]

\* the value of a decimal digit string
RECURSIVE DigitsValue(_)
DigitsValue(chars) ==
    IF chars = <<>> THEN 0
    ELSE 10 * DigitsValue(SubSeq(chars, 1, Len(chars) - 1))
         + (CHOOSE k \in 0..9 : Digits[k + 1] = chars[Len(chars)])

\* int(v): a number is truncated toward zero, a str of digits is read, and
\* None, a list, any other str, NaN and the infinities raise
PyInt(v) ==
    IF IsNum(v)
    THEN IF ~IsFinite(v) THEN Raised
         ELSE Value(IF v.n >= 0 THEN v.n \div v.d ELSE -((-v.n) \div v.d))
    ELSE IF IsStr(v) /\ v.s # <<>>
            /\ \A i \in 1..Len(v.s) : \E k \in 1..10 : Digits[k] = v.s[i]
         THEN Value(DigitsValue(v.s))
    ELSE Raised

\* get_value_from_field (526-534)
get_value_from_field(field) ==
    IF ~IsNum(field) /\ ~IsNone(field) /\ ~IsStr(field) /\ ~IsList(field)
       /\ Has(field, "value")
    THEN field.value
    ELSE field

\* np.abs(array - float(value)).argmin(): the first index (0-based) of the
\* smallest distance
ArgMinDistance(array, value) ==
    CHOOSE i \in 0..(Len(array) - 1) :
        /\ \A k \in 0..(Len(array) - 1) :
              FLe(FAbs(FSub(array[i + 1], value)), FAbs(FSub(array[k + 1], value)))
        /\ \A k \in 0..(i - 1) :
              FLt(FAbs(FSub(array[i + 1], value)), FAbs(FSub(array[k + 1], value)))

\* find_nearest_index (393-401); 0 when anything raises
find_nearest_index(array, value) ==
    IF IsNum(value) /\ IsFinite(value) /\ array # <<>>
    THEN ArgMinDistance(array, value)
    ELSE 0

\* get_phase_from_result (536-566)
get_phase_from_result(result) ==
    LET phase_value == IF Has(result, "phase")
                       THEN get_value_from_field(result.phase) ELSE None
        phase_lower == IF IsStr(phase_value) THEN Lower(phase_value.s) ELSE <<>>
        vapor_fraction_key == IF Has(result, "q") THEN "q"
                              ELSE IF Has(result, "vapor_fraction")
                                   THEN "vapor_fraction" ELSE ""
        q == IF vapor_fraction_key = "" THEN None
             ELSE get_value_from_field(result[vapor_fraction_key])
    IN  IF Contains(phase_lower, <<"l", "i", "q", "u", "i", "d">>) THEN "liquid"
        ELSE IF Contains(phase_lower, <<"v", "a", "p", "o", "r">>)
                \/ Contains(phase_lower, <<"g", "a", "s">>) THEN "vapor"
        ELSE IF Contains(phase_lower, <<"t", "w", "o">>)
                \/ Contains(phase_lower, <<"m", "i", "x", "e", "d">>) THEN "two-phase"
        ELSE IF ~IsNum(q) THEN "unknown"
        ELSE IF q = Num(0) THEN "liquid"
        ELSE IF q = Num(1) THEN "vapor"
        ELSE IF FLt(Num(0), q) /\ FLt(q, Num(1)) THEN "two-phase"
        ELSE "unknown"

\* float(v): a number is itself, a str of digits is read, anything else
\* raises
PyFloat(v) ==
    IF IsNum(v) THEN Value(v)
    ELSE IF PyInt(v).ok THEN Value(Num(PyInt(v).v))
    ELSE Raised

(***************************************************************************)
(* extract_property_value and the converters of the property list.         *)
(***************************************************************************)
\* 1e6, the largest specific heat taken as given
CpLimit == Num(1000000)
\* 1000.0, the specific heat put in place of a bad one
CpDefault == Num(1000)
\* 1e3, the largest thermal conductivity taken as given
ConductivityLimit == Num(1000)
\* 0.02, the thermal conductivity put in place of a bad one
ConductivityDefault == Frac(2, 100)

\* `default if value is None or abs(value) > limit else value`; abs of a
\* str or a list raises, and the except branch (522-524) returns None
Guarded(value, limit, default) ==
    IF IsNone(value) THEN default
    ELSE IF ~IsNum(value) THEN None
    ELSE IF FLt(limit, FAbs(value)) THEN default
    ELSE value

\* key[7:] for the keys of the property list that start with 'liquid_'
LiquidBase ==
    [liquid_density |-> "density", liquid_viscosity |-> "viscosity",
     liquid_cp |-> "cp", liquid_enthalpy |-> "enthalpy",
     liquid_thermal_conductivity |-> "thermal_conductivity",
     liquid_entropy |-> "entropy"]

\* key[6:] for the keys of the property list that start with 'vapor_'
VaporBase ==
    [vapor_density |-> "density", vapor_fraction |-> "fraction",
     vapor_viscosity |-> "viscosity", vapor_cp |-> "cp",
     vapor_enthalpy |-> "enthalpy",
     vapor_thermal_conductivity |-> "thermal_conductivity",
     vapor_entropy |-> "entropy"]

\* the single-phase rules (452-502): the field read, the phase required and
\* the guard put on the value
SinglePhase ==
    [liquid_density |-> [field |-> "density", phase |-> "liquid", guard |-> "none"],
     vapor_density |-> [field |-> "density", phase |-> "vapor", guard |-> "none"],
     liquid_cp |-> [field |-> "cp", phase |-> "liquid", guard |-> "cp"],
     vapor_cp |-> [field |-> "cp", phase |-> "vapor", guard |-> "cp"],
     liquid_enthalpy |-> [field |-> "enthalpy", phase |-> "liquid", guard |-> "none"],
     vapor_enthalpy |-> [field |-> "enthalpy", phase |-> "vapor", guard |-> "none"],
     liquid_entropy |-> [field |-> "entropy", phase |-> "liquid", guard |-> "none"],
     vapor_entropy |-> [field |-> "entropy", phase |-> "vapor", guard |-> "none"],
     liquid_viscosity |-> [field |-> "viscosity", phase |-> "liquid", guard |-> "none"],
     vapor_viscosity |-> [field |-> "viscosity", phase |-> "vapor", guard |-> "none"],
     liquid_thermal_conductivity |->
         [field |-> "thermal_conductivity", phase |-> "liquid", guard |-> "conductivity"],
     vapor_thermal_conductivity |->
         [field |-> "thermal_conductivity", phase |-> "vapor", guard |-> "conductivity"],
     dDdP_liquid |-> [field |-> "dDdP", phase |-> "liquid", guard |-> "none"],
     dDdP_vapor |-> [field |-> "dDdP", phase |-> "vapor", guard |-> "none"],
     dDdT_liquid |-> [field |-> "dDdT", phase |-> "liquid", guard |-> "none"],
     dDdT_vapor |-> [field |-> "dDdT", phase |-> "vapor", guard |-> "none"]]

WATER == <<"W", "A", "T", "E", "R">>

\* the water entry of a phase composition vector (504-518); a composition
\* entry without 'fluid' raises and None is returned
WaterFraction(vector, composition) ==
    IF ~(IsList(vector) /\ Len(vector.list) > 0) THEN Num(0)
    ELSE IF \E i \in 1..Len(composition) :
               /\ ~Has(composition[i], "fluid")
               /\ \A k \in 1..(i - 1) :
                     /\ Has(composition[k], "fluid")
                     /\ ~Contains(Upper(composition[k].fluid), WATER)
         THEN None
    ELSE LET named == { i \in 1..Len(composition) :
                          /\ Has(composition[i], "fluid")
                          /\ Contains(Upper(composition[i].fluid), WATER) }
         IN  IF named = {} THEN Num(0)
             ELSE LET water_idx == CHOOSE i \in named : \A k \in named : i <= k
                  IN  IF water_idx <= Len(vector.list)
                      THEN vector.list[water_idx] ELSE Num(0)

extract_property_valueAnyPhase(result, key, phase, composition, molar_mass) ==
    IF Has(result, key)
    THEN LET value == get_value_from_field(result[key])
         IN  IF key \in {"liquid_cp", "vapor_cp"}
             THEN Guarded(value, CpLimit, CpDefault) ELSE value
    ELSE IF Has(LiquidBase, key) /\ Has(result, LiquidBase[key])
    THEN LET value == get_value_from_field(result[LiquidBase[key]])
         IN  IF LiquidBase[key] = "cp"
             THEN Guarded(value, CpLimit, CpDefault) ELSE value
    ELSE IF Has(VaporBase, key) /\ Has(result, VaporBase[key])
    THEN LET value == get_value_from_field(result[VaporBase[key]])
         IN  IF VaporBase[key] = "cp"
             THEN Guarded(value, CpLimit, CpDefault) ELSE value
    ELSE IF Has(SinglePhase, key) /\ Has(result, SinglePhase[key].field)
            /\ phase = SinglePhase[key].phase
    THEN LET value == get_value_from_field(result[SinglePhase[key].field])
             guard == SinglePhase[key].guard
         IN  IF guard = "cp" THEN Guarded(value, CpLimit, CpDefault)
             ELSE IF guard = "conductivity"
                  THEN Guarded(value, ConductivityLimit, ConductivityDefault)
             ELSE value
    ELSE IF key = "water_liquid" /\ Has(result, "x")
    THEN WaterFraction(get_value_from_field(result.x), composition)
    ELSE IF key = "water_vapor" /\ Has(result, "y")
    THEN WaterFraction(get_value_from_field(result.y), composition)
    ELSE None

\* extract_property_value (403-524): the value, or None
extract_property_value(result, key, phase, composition, molar_mass) ==
    IF Has(result, key)
    THEN LET value == get_value_from_field(result[key])
         IN  IF key \in {"liquid_cp", "vapor_cp"}
             THEN Guarded(value, CpLimit, CpDefault) ELSE value
    ELSE IF Has(LiquidBase, key) /\ phase \in {"liquid", "two-phase"}
            /\ Has(result, LiquidBase[key])
    THEN LET value == get_value_from_field(result[LiquidBase[key]])
         IN  IF LiquidBase[key] = "cp"
             THEN Guarded(value, CpLimit, CpDefault) ELSE value
    ELSE IF Has(VaporBase, key) /\ phase \in {"vapor", "two-phase"}
            /\ Has(result, VaporBase[key])
    THEN LET value == get_value_from_field(result[VaporBase[key]])
         IN  IF VaporBase[key] = "cp"
             THEN Guarded(value, CpLimit, CpDefault) ELSE value
    ELSE IF Has(SinglePhase, key) /\ Has(result, SinglePhase[key].field)
            /\ phase = SinglePhase[key].phase
    THEN LET value == get_value_from_field(result[SinglePhase[key].field])
             guard == SinglePhase[key].guard
         IN  IF guard = "cp" THEN Guarded(value, CpLimit, CpDefault)
             ELSE IF guard = "conductivity"
                  THEN Guarded(value, ConductivityLimit, ConductivityDefault)
             ELSE value
    ELSE IF key = "water_liquid" /\ Has(result, "x")
    THEN WaterFraction(get_value_from_field(result.x), composition)
    ELSE IF key = "water_vapor" /\ Has(result, "y")
    THEN WaterFraction(get_value_from_field(result.y), composition)
    ELSE None

\* handle_specific_heat (294-302) of a number
handle_specific_heat(value) ==
    IF FLt(value, Num(0)) \/ FLt(CpLimit, FAbs(value)) THEN CpDefault ELSE value

\* handle_extreme_values (304-312) of a number
handle_extreme_values(value) ==
    IF FLt(value, Num(0)) \/ FLt(ConductivityLimit, FAbs(value))
    THEN ConductivityDefault ELSE value

\* convert_vapor_fraction_to_mass (568-598); a comparison that raises (a
\* str, a list) ends in the except branch, which returns 0.0
convert_vapor_fraction_to_mass(q) ==
    IF IsNone(q) THEN Num(0)
    ELSE IF ~IsNum(q) THEN Num(0)
    ELSE IF q = Num(998) THEN Num(1)
    ELSE IF q = Num(-998) THEN Num(0)
    ELSE IF q = Num(999) THEN Frac(1, 2)
    ELSE IF FLt(q, Num(0)) THEN Num(0)
    ELSE IF FLt(Num(1), q) THEN Num(1)
    ELSE q

(***************************************************************************)
(* format_olga_tab: axes, grids, the property list and the tables.         *)
(***************************************************************************)
\* 1e5, Pa in one bar
PaPerBar == Num(100000)

\* the names and multipliers chosen by endpoint type (24-80)
Axes(endpoint_type) ==
    CASE endpoint_type = "ph_flash" ->
            [x_name |-> "pressure", y_name |-> "enthalpy", x_idx_name |-> "p_idx",
             y_idx_name |-> "h_idx", x_multiplier |-> PaPerBar, y_multiplier |-> Num(1)]
      [] endpoint_type = "ts_flash" ->
            [x_name |-> "temperature", y_name |-> "entropy", x_idx_name |-> "t_idx",
             y_idx_name |-> "s_idx", x_multiplier |-> Num(1), y_multiplier |-> Num(1)]
      [] endpoint_type = "vt_flash" ->
            [x_name |-> "temperature", y_name |-> "specific_volume",
             x_idx_name |-> "t_idx", y_idx_name |-> "v_idx",
             x_multiplier |-> Num(1), y_multiplier |-> Num(1)]
      [] endpoint_type = "uv_flash" ->
            [x_name |-> "internal_energy", y_name |-> "specific_volume",
             x_idx_name |-> "u_idx", y_idx_name |-> "v_idx",
             x_multiplier |-> Num(1), y_multiplier |-> Num(1)]
      [] OTHER ->
            [x_name |-> "pressure", y_name |-> "temperature", x_idx_name |-> "p_idx",
             y_idx_name |-> "t_idx", x_multiplier |-> PaPerBar, y_multiplier |-> Num(1)]

\* np.linspace(start, stop, num) for num > 1
LinSpace(start, stop, num) ==
    [k \in 1..num |->
        FAdd(start, FDiv(FMul(Num(k - 1), FSub(stop, start)), Num(num - 1)))]

\* the grid of one axis (83-150): the given 'values', or np.arange over the
\* range after its defaults and repairs, or the fixed np.linspace when a
\* bound or the resolution is not a number
AxisGrid(axis_vars, from0, to0, resolution0, fallback) ==
    IF Has(axis_vars, "values") THEN axis_vars.values
    ELSE LET given == Get(axis_vars, "range", EmptyDict)
             range == IF DOMAIN given = {} THEN [from |-> from0, to |-> to0]
                      ELSE given
             from == PyFloat(Get(range, "from", from0))
             to == PyFloat(Get(range, "to", to0))
             resolution == PyFloat(Get(axis_vars, "resolution", resolution0))
         IN  IF ~from.ok \/ ~to.ok \/ ~resolution.ok THEN fallback
             ELSE LET to1 == IF FLe(to.v, from.v) THEN FAdd(from.v, Num(10))
                             ELSE to.v
                      res1 == IF FLe(resolution.v, Num(0)) THEN resolution0
                              ELSE resolution.v
                  IN  ARange(from.v, FAdd(to1, res1), res1)

x_grid_of(x_vars) ==
    AxisGrid(x_vars, Num(1), Num(100), Num(10), LinSpace(Num(1), Num(100), 10))

y_grid_of(y_vars) ==
    AxisGrid(y_vars, Num(0), Num(100), Num(5), LinSpace(Num(0), Num(100), 20))

\* olga_properties (182-203): header name, key and converter of each table
olga_properties ==
    << [name |-> "LIQUID DENSITY (KG/M3)", key |-> "liquid_density", converter |-> "times_molar_mass"],
       [name |-> "GAS DENSITY (KG/M3)", key |-> "vapor_density", converter |-> "times_molar_mass"],
       [name |-> "PRES. DERIV. OF LIQUID DENS.", key |-> "dDdP_liquid", converter |-> "times_molar_mass"],
       [name |-> "PRES. DERIV. OF GAS DENS.", key |-> "dDdP_vapor", converter |-> "times_molar_mass"],
       [name |-> "TEMP. DERIV. OF LIQUID DENS.", key |-> "dDdT_liquid", converter |-> "times_molar_mass"],
       [name |-> "TEMP. DERIV. OF GAS DENS.", key |-> "dDdT_vapor", converter |-> "times_molar_mass"],
       [name |-> "GAS MASS FRACTION OF GAS +LIQUID", key |-> "vapor_fraction", converter |-> "vapor_fraction_to_mass"],
       [name |-> "WATER MASS FRACTION OF LIQUID", key |-> "water_liquid", converter |-> "identity"],
       [name |-> "WATER MASS FRACTION OF GAS", key |-> "water_vapor", converter |-> "identity"],
       [name |-> "LIQUID VISCOSITY (N S/M2)", key |-> "liquid_viscosity", converter |-> "micro"],
       [name |-> "GAS VISCOSITY (N S/M2)", key |-> "vapor_viscosity", converter |-> "micro"],
       [name |-> "LIQUID SPECIFIC HEAT (J/KG K)", key |-> "liquid_cp", converter |-> "specific_heat"],
       [name |-> "GAS SPECIFIC HEAT (J/KG K)", key |-> "vapor_cp", converter |-> "specific_heat"],
       [name |-> "LIQUID ENTHALPY (J/KG)", key |-> "liquid_enthalpy", converter |-> "per_kg"],
       [name |-> "GAS ENTHALPY (J/KG)", key |-> "vapor_enthalpy", converter |-> "per_kg"],
       [name |-> "LIQUID THERMAL COND. (W/M K)", key |-> "liquid_thermal_conductivity", converter |-> "extreme_values"],
       [name |-> "GAS THERMAL COND. (W/M K)", key |-> "vapor_thermal_conductivity", converter |-> "extreme_values"],
       [name |-> "SURFACE TENSION GAS/LIQUID (N/M)", key |-> "surface_tension", converter |-> "identity"],
       [name |-> "LIQUID ENTROPY (J/KG/C)", key |-> "liquid_entropy", converter |-> "per_kg"],
       [name |-> "GAS ENTROPY (J/KG/C)", key |-> "vapor_entropy", converter |-> "per_kg"] >>

PropertyNames == { olga_properties[p].name : p \in 1..Len(olga_properties) }

\* x * 1000.0 / molar_mass for a number x and a finite molar mass; a zero
\* molar mass raises ZeroDivisionError
PerKg(x, molar_mass) ==
    IF molar_mass.n = 0 THEN Raised
    ELSE IF ~IsFinite(x) THEN Value(FMul(x, molar_mass))
    ELSE Value(FDiv(FMul(x, Num(1000)), molar_mass))

\* prop['converter'](value) for a value that is not None (183-202): the
\* converted value, or Raised when the arithmetic or a comparison raises
Convert(converter, x, molar_mass) ==
    IF converter = "vapor_fraction_to_mass"
    THEN Value(convert_vapor_fraction_to_mass(x))
    ELSE IF converter = "identity" THEN Value(x)
    ELSE IF ~IsNum(x) THEN Raised
    ELSE IF converter = "times_molar_mass" THEN Value(FMul(x, molar_mass))
    ELSE IF converter = "micro" THEN Value(FMul(x, Frac(1, 1000000)))
    ELSE IF converter = "per_kg" THEN PerKg(x, molar_mass)
    ELSE IF converter = "specific_heat"
    THEN (IF PerKg(x, molar_mass).ok
          THEN Value(handle_specific_heat(PerKg(x, molar_mass).v)) ELSE Raised)
    ELSE Value(handle_extreme_values(x))

\* np.zeros((nx_grid, ny_grid)), indexed by (x_idx, y_idx)
np_zeros(nx_grid, ny_grid) ==
    [cell \in (0..(nx_grid - 1)) \X (0..(ny_grid - 1)) |-> Num(0)]

\* the property of the list that owns the table `name`
PropertyOf(name) ==
    olga_properties[CHOOSE p \in 1..Len(olga_properties) :
                        olga_properties[p].name = name]

CellValueNoDefault(prop, old, result, phase, composition, molar_mass) ==
    LET value == extract_property_value(result, prop.key, phase, composition,
                                        molar_mass)
    IN  IF ~IsNone(value)
        THEN LET converted_value == Convert(prop.converter, value, molar_mass)
             IN  IF converted_value.ok /\ PyFloat(converted_value.v).ok
                 THEN PyFloat(converted_value.v).v ELSE old
        ELSE old

\* the body of the loop over the properties (255-269) for one property:
\* the value of the cell after it, `old` being its value before
CellValue(prop, old, result, phase, composition, molar_mass) ==
    LET value == extract_property_value(result, prop.key, phase, composition,
                                        molar_mass)
    IN  IF ~IsNone(value)
        THEN LET converted_value == Convert(prop.converter, value, molar_mass)
             IN  IF converted_value.ok /\ PyFloat(converted_value.v).ok
                 THEN PyFloat(converted_value.v).v ELSE old
        ELSE IF prop.name = "GAS MASS FRACTION OF GAS +LIQUID"
             THEN (IF phase = "vapor" THEN Num(1)
                   ELSE IF phase = "liquid" THEN Num(0) ELSE old)
        ELSE old

Located(outcome, rule, x_idx, y_idx) ==
    [outcome |-> outcome, rule |-> rule, x_idx |-> x_idx, y_idx |-> y_idx]

PositionIndexFirst(result, axes, x_grid, y_grid) ==
    LET x_idx == Get(result, axes.x_idx_name, None)
        y_idx == Get(result, axes.y_idx_name, None)
        ny_grid == Len(y_grid)
    IN  IF Has(result, "index")
        THEN LET idx == PyInt(result.index)
             IN  IF ~idx.ok \/ ny_grid = 0
                 THEN Located("raised", "index", None, None)
                 ELSE Located("found", "index", Num(idx.v \div ny_grid),
                              Num(idx.v % ny_grid))
        ELSE IF ~IsNone(x_idx) /\ ~IsNone(y_idx)
        THEN Located("found", "idx_fields", x_idx, y_idx)
        ELSE IF Has(result, axes.x_name) /\ Has(result, axes.y_name)
        THEN Located("found", "values",
                     Num(find_nearest_index(x_grid,
                             get_value_from_field(result[axes.x_name]))),
                     Num(find_nearest_index(y_grid,
                             get_value_from_field(result[axes.y_name]))))
        ELSE Located("skipped", "none", None, None)

\* x_idx and y_idx before int() (218-237): the index fields, or the flat
\* index split row-major, or the nearest grid coordinates, or nothing
Position(result, axes, x_grid, y_grid) ==
    LET x_idx == Get(result, axes.x_idx_name, None)
        y_idx == Get(result, axes.y_idx_name, None)
        ny_grid == Len(y_grid)
    IN  IF ~IsNone(x_idx) /\ ~IsNone(y_idx)
        THEN Located("found", "idx_fields", x_idx, y_idx)
        ELSE IF Has(result, "index")
        THEN LET idx == PyInt(result.index)
             IN  IF ~idx.ok \/ ny_grid = 0
                 THEN Located("raised", "index", None, None)
                 ELSE Located("found", "index", Num(idx.v \div ny_grid),
                              Num(idx.v % ny_grid))
        ELSE IF Has(result, axes.x_name) /\ Has(result, axes.y_name)
        THEN Located("found", "values",
                     Num(find_nearest_index(x_grid,
                             get_value_from_field(result[axes.x_name]))),
                     Num(find_nearest_index(y_grid,
                             get_value_from_field(result[axes.y_name]))))
        ELSE Located("skipped", "none", None, None)

InBoundsUpperOnly(x_idx, y_idx, nx_grid, ny_grid) ==
    x_idx < nx_grid /\ y_idx < ny_grid

\* 0 <= x_idx < nx_grid and 0 <= y_idx < ny_grid (247)
InBounds(x_idx, y_idx, nx_grid, ny_grid) ==
    0 <= x_idx /\ x_idx < nx_grid /\ 0 <= y_idx /\ y_idx < ny_grid

\* the cell of a result (218-247): its position, int() of both indices and
\* the bounds check; only the outcome "mapped" lets the result write
Locate(result, axes, x_grid, y_grid) ==
    LET pos == Position(result, axes, x_grid, y_grid)
        x_idx == PyInt(pos.x_idx)
        y_idx == PyInt(pos.y_idx)
    IN  IF pos.outcome # "found" THEN pos
        ELSE IF ~x_idx.ok \/ ~y_idx.ok
        THEN Located("unparsable", pos.rule, None, None)
        ELSE IF InBounds(x_idx.v, y_idx.v, Len(x_grid), Len(y_grid))
        THEN Located("mapped", pos.rule, Num(x_idx.v), Num(y_idx.v))
        ELSE Located("out_of_bounds", pos.rule, Num(x_idx.v), Num(y_idx.v))

\* what the loop over the results carries: the tables and mapped_points
LoopState(tables, mapped_points) ==
    [tables |-> tables, mapped_points |-> mapped_points]

\* property_arrays and mapped_points after their initialisation (206-212)
ZeroTables(nx_grid, ny_grid) ==
    LoopState([name \in PropertyNames |-> np_zeros(nx_grid, ny_grid)], 0)

ProcessResultByPosition(st, result, axes, x_grid, y_grid, composition, molar_mass) ==
    LET ny_grid == Len(y_grid)
        x_idx == IF ny_grid = 0 THEN 0 ELSE st.mapped_points \div ny_grid
        y_idx == IF ny_grid = 0 THEN 0 ELSE st.mapped_points % ny_grid
    IN  IF ~InBounds(x_idx, y_idx, Len(x_grid), ny_grid) THEN st
        ELSE LoopState(
                 [name \in PropertyNames |->
                     [st.tables[name] EXCEPT ![<<x_idx, y_idx>>] =
                         CellValue(PropertyOf(name), @, result,
                                   get_phase_from_result(result), composition,
                                   molar_mass)]],
                 st.mapped_points + 1)

\* the place array[i] names in an axis of length n: a negative i counts
\* from the end
NumpyIndex(i, n) == IF i < 0 THEN i + n ELSE i

ProcessResultFromZero(st, result, axes, x_grid, y_grid, composition, molar_mass) ==
    LET at == Locate(result, axes, x_grid, y_grid)
        phase == get_phase_from_result(result)
    IN  IF at.outcome # "mapped" THEN st
        ELSE LoopState(
                 [name \in PropertyNames |->
                     [st.tables[name] EXCEPT
                         ![<<NumpyIndex(at.x_idx.n, Len(x_grid)),
                             NumpyIndex(at.y_idx.n, Len(y_grid))>>] =
                         CellValue(PropertyOf(name), Num(0), result, phase,
                                   composition, molar_mass)]],
                 st.mapped_points + 1)

\* one iteration of the loop over the results (215-272)
ProcessResult(st, result, axes, x_grid, y_grid, composition, molar_mass) ==
    LET at == Locate(result, axes, x_grid, y_grid)
        phase == get_phase_from_result(result)
    IN  IF at.outcome # "mapped" THEN st
        ELSE LoopState(
                 [name \in PropertyNames |->
                     [st.tables[name] EXCEPT
                         ![<<NumpyIndex(at.x_idx.n, Len(x_grid)),
                             NumpyIndex(at.y_idx.n, Len(y_grid))>>] =
                         CellValue(PropertyOf(name), @, result, phase,
                                   composition, molar_mass)]],
                 st.mapped_points + 1)

\* the loop over results[1..k]
RECURSIVE ProcessResults(_, _, _, _, _, _, _)
ProcessResults(results, k, axes, x_grid, y_grid, composition, molar_mass) ==
    IF k = 0 THEN ZeroTables(Len(x_grid), Len(y_grid))
    ELSE ProcessResult(ProcessResults(results, k - 1, axes, x_grid, y_grid,
                                      composition, molar_mass),
                       results[k], axes, x_grid, y_grid, composition, molar_mass)

\* the critical point read from the results (323-338): that of the first
\* result holding both critical fields with values, or None; the product
\* press_val * 1e5 raises for a value that is not a number
CriticalPoint(results) ==
    LET holds(k) == /\ Has(results[k], "critical_temperature")
                    /\ Has(results[k], "critical_pressure")
                    /\ ~IsNone(get_value_from_field(results[k].critical_temperature))
                    /\ ~IsNone(get_value_from_field(results[k].critical_pressure))
        found == { k \in 1..Len(results) : holds(k) }
    IN  IF found = {} THEN Value(None)
        ELSE LET first == CHOOSE k \in found : \A m \in found : k <= m
                 press_val == get_value_from_field(results[first].critical_pressure)
             IN  IF IsNum(press_val) THEN Value(FMul(press_val, PaPerBar))
                 ELSE Raised

\* max() and min() of a non-empty list of numbers
MaxOf(list) ==
    list[CHOOSE i \in 1..Len(list) : \A k \in 1..Len(list) : FLe(list[k], list[i])]
MinOf(list) ==
    list[CHOOSE i \in 1..Len(list) : \A k \in 1..Len(list) : FLe(list[i], list[k])]

\* create_bubble_line (314-352): a line falling from the highest grid
\* pressure; an empty pressure grid raises
create_bubble_line(temps, n_pressure, pressures, results, endpoint_type) ==
    IF ~CriticalPoint(results).ok \/ pressures = <<>> THEN Raised
    ELSE LET max_pressure == FMul(MaxOf(pressures), PaPerBar)
         IN  Value([i \in 1..Len(temps) |->
                      FMul(max_pressure,
                           FSub(Num(1), FMul(Frac(i - 1, Len(temps)),
                                             Frac(3, 10))))])

\* create_dew_line (354-391): a line rising from half the lowest grid
\* pressure, one value for each of reversed(temps)
create_dew_line(temps, n_pressure, pressures, results, endpoint_type) ==
    IF ~CriticalPoint(results).ok \/ pressures = <<>> THEN Raised
    ELSE LET min_pressure == FMul(MinOf(pressures), PaPerBar)
         IN  Value([i \in 1..Len(temps) |->
                      FMul(min_pressure,
                           FAdd(Frac(1, 2), FMul(Frac(i - 1, Len(temps)),
                                                 Frac(1, 2))))])

bubble_pressureRising(i, temps, pressures) ==
    FMul(FMul(MaxOf(pressures), PaPerBar),
         FAdd(Num(1), FMul(Frac(i, Len(temps)), Frac(3, 10))))

\* bubble_pressure of iteration i (0-based) of the loop of create_bubble_line
\* (345-349)
bubble_pressure(i, temps, pressures) ==
    FMul(FMul(MaxOf(pressures), PaPerBar),
         FSub(Num(1), FMul(Frac(i, Len(temps)), Frac(3, 10))))

\* dew_pressure of iteration i (0-based) of the loop of create_dew_line
\* (385-389)
dew_pressure(i, temps, pressures) ==
    FMul(FMul(MinOf(pressures), PaPerBar),
         FAdd(Frac(1, 2), FMul(Frac(i, Len(temps)), Frac(1, 2))))

reversedForward(temps) == temps

\* reversed(temps) (385), as a list
reversed(temps) == [k \in 1..Len(temps) |-> temps[Len(temps) + 1 - k]]

\* the statements before the loops (323-342, 363-381) raise: the critical
\* pressure of a result is no number, or the pressure grid is empty
LinesRaise(pressures, results) ==
    ~CriticalPoint(results).ok \/ pressures = <<>>

(***************************************************************************)
(* format_olga_tab: the text.  A line of it is [text |-> characters], or   *)
(* [heading |-> name] for the line f" {name}                \n".           *)
(***************************************************************************)
Text(chars) == [text |-> chars]
Heading(name) == [heading |-> name]
TextLines(lines) == [i \in 1..Len(lines) |-> Text(lines[i])]

\* chars right-justified in width w with zeros
RECURSIVE ZFill(_, _)
ZFill(chars, w) == IF Len(chars) >= w THEN chars ELSE ZFill(<<"0">> \o chars, w)

\* f"{x:.4f}" for a number: the integer part, the point and four decimals,
\* rounded to nearest with ties to even
PyFormat4f(x) ==
    IF IsNaN(x) THEN <<"n", "a", "n">>
    ELSE IF ~IsFinite(x)
         THEN (IF x.n < 0 THEN <<"-">> ELSE <<>>) \o <<"i", "n", "f">>
    ELSE LET ld == LongDiv(IAbs(x.n), x.d, 4)
             up == 2 * ld.r > x.d \/ (2 * ld.r = x.d /\ ld.q % 2 = 1)
             q == IF up THEN ld.q + 1 ELSE ld.q
         IN  (IF x.n < 0 THEN <<"-">> ELSE <<>>) \o NatChars(q \div 10000)
             \o <<".">> \o ZFill(NatChars(q % 10000), 4)

\* " ".join(f"{comp['fluid']}-{comp['fraction']:.4f}" ...) (156); a missing
\* key or a fraction that is not a number raises
RECURSIVE fluid_desc(_)
fluid_desc(composition) ==
    IF composition = <<>> THEN Value(<<>>)
    ELSE LET comp == composition[Len(composition)]
             front == fluid_desc(SubSeq(composition, 1, Len(composition) - 1))
         IN  IF ~front.ok \/ ~Has(comp, "fluid") \/ ~Has(comp, "fraction")
             THEN Raised
             ELSE IF ~IsNum(comp.fraction) THEN Raised
             ELSE Value(front.v \o (IF Len(composition) > 1 THEN <<" ">> ELSE <<>>)
                        \o comp.fluid \o <<"-">> \o PyFormat4f(comp.fraction))

\* the first line (159-160)
HeaderLine(desc, nx_grid, ny_grid) ==
    <<"'">> \o desc \o <<"'">> \o Blank4 \o NatChars(nx_grid) \o <<" ", " ">>
    \o NatChars(ny_grid) \o Blank4
    \o <<".", "2", "7", "6", "7", "3", "1", "E", "-", "0", "8">>

Scaled(grid, multiplier) == [i \in 1..Len(grid) |-> FMul(grid[i], multiplier)]

\* the header line and the two grids as text (155-168), or Raised
HeaderLines(x_grid, y_grid, composition, endpoint_type) ==
    LET axes == Axes(endpoint_type)
        desc == fluid_desc(composition)
    IN  IF ~desc.ok THEN Raised
        ELSE Value(<<Text(HeaderLine(desc.v, Len(x_grid), Len(y_grid)))>>
                   \o TextLines(format_grid_values(Scaled(x_grid, axes.x_multiplier)))
                   \o TextLines(format_grid_values(Scaled(y_grid, axes.y_multiplier))))

\* the bubble line and the dew line as text (170-179), or Raised
CriticalLines(x_grid, y_grid, results, endpoint_type) ==
    LET bubble == create_bubble_line(y_grid, Len(x_grid), x_grid, results,
                                     endpoint_type)
        dew == create_dew_line(y_grid, Len(x_grid), x_grid, results, endpoint_type)
    IN  IF ~bubble.ok \/ ~dew.ok THEN Raised
        ELSE Value(TextLines(format_grid_values(bubble.v))
                   \o TextLines(format_grid_values(dew.v)))

\* the text up to the property tables (155-179), or Raised
Preamble(x_grid, y_grid, results, composition, endpoint_type) ==
    LET header == HeaderLines(x_grid, y_grid, composition, endpoint_type)
        lines == CriticalLines(x_grid, y_grid, results, endpoint_type)
    IN  IF ~header.ok \/ ~lines.ok THEN Raised ELSE Value(header.v \o lines.v)

\* property_arrays[name].flatten(): row after row, x_idx the row
Flatten(table, nx_grid, ny_grid) ==
    [k \in 1..(nx_grid * ny_grid) |->
        table[<<(k - 1) \div ny_grid, (k - 1) % ny_grid>>]]

\* the property tables as text (277-279): for the first p properties, the
\* heading and the values of each
RECURSIVE PropertyBlocks(_, _, _, _)
PropertyBlocks(tables, p, nx_grid, ny_grid) ==
    IF p = 0 THEN <<>>
    ELSE PropertyBlocks(tables, p - 1, nx_grid, ny_grid)
         \o <<Heading(olga_properties[p].name)>>
         \o TextLines(format_grid_values(
                Flatten(tables[olga_properties[p].name], nx_grid, ny_grid)))

\* the attachment name, endpoint_type.replace('_', '-') + ".tab" (282)
FileName(endpoint_type) ==
    CASE endpoint_type = "pt_flash" -> "pt-flash.tab"
      [] endpoint_type = "ph_flash" -> "ph-flash.tab"
      [] endpoint_type = "ts_flash" -> "ts-flash.tab"
      [] endpoint_type = "vt_flash" -> "vt-flash.tab"
      [] endpoint_type = "uv_flash" -> "uv-flash.tab"

\* Response(olga_tab, mimetype='text/plain', headers=...) (283-285)
TabResponse(lines, endpoint_type) ==
    [status |-> 200, mimetype |-> "text/plain", filename |-> FileName(endpoint_type),
     lines |-> lines]

\* Response(error_msg, status=500, mimetype='text/plain') (292)
ErrorResponse ==
    [status |-> 500, mimetype |-> "text/plain", filename |-> "", lines |-> <<>>]

NoTab == [status |-> 0, mimetype |-> "", filename |-> "", lines |-> <<>>]

\* format_olga_tab as one function of its arguments
format_olga_tab(x_vars, y_vars, results, composition, molar_mass, endpoint_type) ==
    LET x_grid == x_grid_of(x_vars)
        y_grid == y_grid_of(y_vars)
        head == Preamble(x_grid, y_grid, results, composition, endpoint_type)
        st == ProcessResults(results, Len(results), Axes(endpoint_type), x_grid,
                             y_grid, composition, molar_mass)
    IN  IF ~head.ok THEN ErrorResponse
        ELSE TabResponse(head.v \o PropertyBlocks(st.tables, Len(olga_properties),
                                                  Len(x_grid), Len(y_grid)),
                         endpoint_type)

(***************************************************************************)
(* State.                                                                  *)
(***************************************************************************)
VARIABLES
    fg_values,    \* format_grid_values: the argument `values`
    fg_out,       \* format_grid_values: the lines of the returned text
    fg_pc,        \* "idle", "call" (entered), "done" (returned)
    ep_endpoint,  \* the route that received the request
    ep_data,      \* request.get_json(force=True)
    ep_pc,        \* position in the handler: "idle", "recv", "validated",
                  \* "mixture", "loop", "responded"
    ep_engine,    \* the calls made to the native engine so far
    ep_outer,     \* the grid of the outer loop
    ep_inner,     \* the grid of the inner loop
    ep_i,         \* position of the outer loop (0-based)
    ep_j,         \* position of the inner loop (0-based)
    ep_idx,       \* idx
    ep_results,   \* results
    ep_response,  \* the response returned: status and body
    ep_visited,   \* history: the (i, j) pairs the loop body ran for
    ep_failed,    \* history: the (i, j) pairs whose flash raised
    en_x_vars,    \* format_olga_tab: the argument x_vars
    en_y_vars,    \* the argument y_vars
    en_results,   \* the argument results
    en_composition,   \* the argument composition
    en_molar_mass,    \* the argument molar_mass
    en_endpoint_type, \* the argument endpoint_type
    en_pc,        \* "idle", "call" (entered), "header", "lines", "loop"
                  \* (over the results), "done" (returned)
    en_x_grid,    \* x_grid
    en_y_grid,    \* y_grid
    en_head,      \* olga_tab before the loop: the lines up to the tables
    en_st,        \* property_arrays and mapped_points
    en_k,         \* the number of results the loop has taken
    en_cells,     \* history: where the loop put each result it has taken
    en_response,  \* the Response returned
    en_calls,     \* the number of the call being made: 1, or 2 for the repeat
    en_first,     \* the Response the first call returned
    en_given,     \* history: the arguments as the caller first passed them
    ex_result,    \* extract_property_value: the argument result
    ex_key,       \* the argument key
    ex_phase,     \* the argument phase
    ex_composition,   \* the argument composition
    ex_value,     \* the value returned
    ex_pc,        \* "idle", "call" (entered), "done" (returned)
    cv_q,         \* convert_vapor_fraction_to_mass: the argument q
    cv_out,       \* the value returned
    cv_pc,        \* "idle", "call" (entered), "done" (returned)
    ln_temps,     \* create_bubble_line, create_dew_line: the argument temps
    ln_pressures, \* the argument pressures
    ln_results,   \* the argument results
    ln_pc,        \* "idle", "bubble" (in create_bubble_line), "dew" (in
                  \* create_dew_line), "done" (both returned), "raised"
    ln_i,         \* i of the loop being run
    ln_visited,   \* history: the values temp took in the loop of the dew line
    ln_bubble,    \* bubble_line
    ln_dew        \* dew_line

fgVars == <<fg_values, fg_out, fg_pc>>

epVars == <<ep_endpoint, ep_data, ep_pc, ep_engine, ep_outer, ep_inner, ep_i,
            ep_j, ep_idx, ep_results, ep_response, ep_visited, ep_failed>>

enVars == <<en_x_vars, en_y_vars, en_results, en_composition, en_molar_mass,
            en_endpoint_type, en_pc, en_x_grid, en_y_grid, en_head, en_st, en_k,
            en_cells, en_response, en_calls, en_first, en_given>>

exVars == <<ex_result, ex_key, ex_phase, ex_composition, ex_value, ex_pc>>

cvVars == <<cv_q, cv_out, cv_pc>>

lnVars == <<ln_temps, ln_pressures, ln_results, ln_pc, ln_i, ln_visited,
            ln_bubble, ln_dew>>

vars == <<fgVars, epVars, enVars, exVars, cvVars, lnVars>>

NoResponse == [status |-> 0, body |-> "none", error |-> "", results |-> <<>>]

EndpointIdle ==
    /\ ep_endpoint = "none" /\ ep_data = EmptyDict /\ ep_pc = "idle"
    /\ ep_engine = <<>> /\ ep_outer = <<>> /\ ep_inner = <<>>
    /\ ep_i = 0 /\ ep_j = 0 /\ ep_idx = 0 /\ ep_results = <<>>
    /\ ep_response = NoResponse /\ ep_visited = <<>> /\ ep_failed = {}

EncodeIdle ==
    /\ en_x_vars = EmptyDict /\ en_y_vars = EmptyDict /\ en_results = <<>>
    /\ en_composition = <<>> /\ en_molar_mass = Num(0)
    /\ en_endpoint_type = "none" /\ en_pc = "idle"
    /\ en_x_grid = <<>> /\ en_y_grid = <<>> /\ en_head = <<>>
    /\ en_st = ZeroTables(0, 0) /\ en_k = 0 /\ en_cells = <<>>
    /\ en_response = NoTab
    /\ en_calls = 0 /\ en_first = NoTab /\ en_given = <<>>

ExtractIdle ==
    /\ ex_result = EmptyDict /\ ex_key = "" /\ ex_phase = ""
    /\ ex_composition = <<>> /\ ex_value = None /\ ex_pc = "idle"

ConvertIdle == cv_q = None /\ cv_out = None /\ cv_pc = "idle"

LinesIdle ==
    /\ ln_temps = <<>> /\ ln_pressures = <<>> /\ ln_results = <<>>
    /\ ln_pc = "idle" /\ ln_i = 0 /\ ln_visited = <<>>
    /\ ln_bubble = <<>> /\ ln_dew = <<>>

(***************************************************************************)
(* Calls of format_grid_values on value lists of bounded length.           *)
(***************************************************************************)
\* the floats the value lists are drawn from: the two documented examples
\* (1234.56 and -0.0001), zero, values with short and long mantissas, one
\* that rounds up into the next decade and one that has no E format
FormatInputs ==
    { Frac(123456, 100), Frac(-1, 10000), Num(0), Num(10), Frac(1, 2),
      Num(-5), Frac(99999996, 10), Frac(1, 3), Num(100000), NaN }

SeqsUpTo(S, k) == UNION { [1..m -> S] : m \in 0..k }

FormatIdle == fg_values = <<>> /\ fg_out = <<>> /\ fg_pc = "idle"

\* a list of m different values, some of them negative
LongValues(m) == [k \in 1..m |-> IF k % 3 = 0 THEN Num(-k) ELSE Frac(k, 4)]

InitFormat ==
    /\ fg_values \in SeqsUpTo(FormatInputs, MaxVals)
                      \cup { LongValues(m) : m \in 0..MaxLong }
    /\ fg_out = <<>>
    /\ fg_pc = "call"
    /\ EndpointIdle
    /\ EncodeIdle
    /\ ExtractIdle
    /\ ConvertIdle
    /\ LinesIdle

\* the call returns
FormatGridValuesCall ==
    /\ fg_pc = "call"
    /\ fg_out' = format_grid_values(fg_values)
    /\ fg_pc' = "done"
    /\ UNCHANGED <<fg_values, epVars, enVars, exVars, cvVars,
                   lnVars>>

NextFormat == FormatGridValuesCall

SpecFormat == InitFormat /\ [][NextFormat]_vars

(***************************************************************************)
(* The handlers pt_flash, ph_flash, calculate and ph_flash_olga, one       *)
(* request each.                                                           *)
(***************************************************************************)
InitEndpoint ==
    /\ ep_endpoint \in Endpoints
    /\ ep_data \in Requests(ep_endpoint)
    /\ ep_pc = "recv"
    /\ ep_engine = <<>> /\ ep_outer = <<>> /\ ep_inner = <<>>
    /\ ep_i = 0 /\ ep_j = 0 /\ ep_idx = 0 /\ ep_results = <<>>
    /\ ep_response = NoResponse /\ ep_visited = <<>> /\ ep_failed = {}
    /\ FormatIdle
    /\ EncodeIdle
    /\ ExtractIdle
    /\ ConvertIdle
    /\ LinesIdle

\* return jsonify({'error': ...}), status
RespondError(status, error) ==
    /\ ep_pc' = "responded"
    /\ ep_response' = [status |-> status, body |-> "error", error |-> error,
                       results |-> <<>>]

\* the checks every handler makes first; a request that fails one is
\* answered at once
ValidateRequest ==
    /\ ep_pc = "recv"
    /\ LET v == Validate(ep_endpoint, ep_data)
       IN  IF v.status = 0
           THEN ep_pc' = "validated" /\ UNCHANGED ep_response
           ELSE RespondError(v.status, v.error)
    /\ UNCHANGED <<ep_endpoint, ep_data, ep_engine, ep_outer, ep_inner, ep_i, ep_j,
                   ep_idx, ep_results, ep_visited, ep_failed, fgVars, enVars, exVars, cvVars,
                   lnVars>>

\* setup_mixture (SETUPdll) succeeds; pt_flash then asks the molar mass
SetupMixture ==
    /\ ep_pc = "validated" /\ ep_endpoint # "ph_flash_olga"
    /\ ep_engine' = ep_engine \o <<"SETUPdll">>
                    \o (IF ep_endpoint = "pt_flash" THEN <<"WMOLdll">> ELSE <<>>)
    /\ ep_pc' = "mixture"
    /\ UNCHANGED <<ep_endpoint, ep_data, ep_outer, ep_inner, ep_i, ep_j, ep_idx,
                   ep_results, ep_response, ep_visited, ep_failed, fgVars, enVars, exVars, cvVars,
                   lnVars>>

\* SETUPdll reports ierr > 0: setup_mixture raises ValueError, which the
\* handler's outer except answers with 500
SetupMixtureError ==
    /\ ep_pc = "validated" /\ ep_endpoint # "ph_flash_olga"
    /\ ep_engine' = Append(ep_engine, "SETUPdll")
    /\ RespondError(500, "Error setting up mixture")
    /\ UNCHANGED <<ep_endpoint, ep_data, ep_outer, ep_inner, ep_i, ep_j, ep_idx,
                   ep_results, ep_visited, ep_failed, fgVars, enVars, exVars, cvVars,
                   lnVars>>

\* ph_flash_olga 95-112: PHFlashCalculator.calculate_flash_grid and
\* format_olga_response, taken as one step that uses the engine
CalculateFlashGrid ==
    /\ ep_pc = "validated" /\ ep_endpoint = "ph_flash_olga"
    /\ ep_engine' = Append(ep_engine, "calculate_flash_grid")
    /\ ep_pc' = "responded"
    /\ ep_response' = [status |-> 200, body |-> "olga_tab", error |-> "",
                       results |-> <<>>]
    /\ UNCHANGED <<ep_endpoint, ep_data, ep_outer, ep_inner, ep_i, ep_j, ep_idx,
                   ep_results, ep_visited, ep_failed, fgVars, enVars, exVars, cvVars,
                   lnVars>>

\* calculation.get('response_format', 'json').lower() == 'olga_tab'
\* (pt_flash 159 and 284)
WantsTab(data) ==
    Lower(Get(Get(data, "calculation", EmptyDict), "response_format",
              <<"j", "s", "o", "n">>))
        = <<"o", "l", "g", "a", "_", "t", "a", "b">>

\* grid_type.lower() == 'equidistant' (pt_flash 162 and 212)
Equidistant(data) ==
    Lower(Get(Get(data, "calculation", EmptyDict), "grid_type",
              <<"e", "q", "u", "i", "d", "i", "s", "t", "a", "n", "t">>))
        = <<"e", "q", "u", "i", "d", "i", "s", "t", "a", "n", "t">>

\* ranges, resolutions and the equidistant grids; results = [], idx = 0
PrepareGrids ==
    /\ ep_pc = "mixture" /\ Equidistant(ep_data)
    /\ LET g == Grids(ep_endpoint, ep_data)
       IN  IF g.status = 0
           THEN /\ ep_outer' = g.outer /\ ep_inner' = g.inner
                /\ ep_pc' = "loop"
                /\ UNCHANGED ep_response
           ELSE /\ RespondError(g.status, g.error)
                /\ UNCHANGED <<ep_outer, ep_inner>>
    /\ ep_i' = 0 /\ ep_j' = 0 /\ ep_idx' = 0 /\ ep_results' = <<>>
    /\ UNCHANGED <<ep_endpoint, ep_data, ep_engine, ep_visited, ep_failed, fgVars, enVars, exVars, cvVars,
                   lnVars>>

\* both loops have run to their end
LoopDone == ep_i >= Len(ep_outer) \/ Len(ep_inner) = 0

\* the loops move to the next (i, j) pair
Advance ==
    /\ ep_i' = IF ep_j + 1 < Len(ep_inner) THEN ep_i ELSE ep_i + 1
    /\ ep_j' = IF ep_j + 1 < Len(ep_inner) THEN ep_j + 1 ELSE 0

FlashPointErrorAborts ==
    /\ ep_pc = "loop" /\ ~LoopDone
    /\ ep_engine' = Append(ep_engine, "flash")
    /\ ep_visited' = Append(ep_visited, <<ep_i, ep_j>>)
    /\ ep_failed' = ep_failed \cup {<<ep_i, ep_j>>}
    /\ RespondError(500, "flash")
    /\ UNCHANGED <<ep_endpoint, ep_data, ep_outer, ep_inner, ep_idx, ep_results,
                   ep_i, ep_j, fgVars, enVars, exVars, cvVars,
                   lnVars>>

\* the loop body for a point whose flash succeeds: the result is appended
\* and idx counted up
FlashPointOk ==
    /\ ep_pc = "loop" /\ ~LoopDone
    /\ ep_engine' = Append(ep_engine, "flash")
    /\ ep_results' = Append(ep_results,
            FlashResult(ep_endpoint, ep_idx, ep_i, ep_j,
                        ep_outer[ep_i + 1], ep_inner[ep_j + 1]))
    /\ ep_idx' = ep_idx + 1
    /\ ep_visited' = Append(ep_visited, <<ep_i, ep_j>>)
    /\ Advance
    /\ UNCHANGED <<ep_endpoint, ep_data, ep_pc, ep_outer, ep_inner, ep_response,
                   ep_failed, fgVars, enVars, exVars, cvVars,
                   lnVars>>

\* the loop body for a point whose flash raises: the except clause prints
\* and continues
FlashPointError ==
    /\ ep_pc = "loop" /\ ~LoopDone
    /\ ep_engine' = Append(ep_engine, "flash")
    /\ ep_visited' = Append(ep_visited, <<ep_i, ep_j>>)
    /\ ep_failed' = ep_failed \cup {<<ep_i, ep_j>>}
    /\ Advance
    /\ UNCHANGED <<ep_endpoint, ep_data, ep_pc, ep_outer, ep_inner, ep_idx,
                   ep_results, ep_response, fgVars, enVars, exVars, cvVars,
                   lnVars>>

\* after the loops: return jsonify({'results': results, ...})
RespondResults ==
    /\ ep_pc = "loop" /\ LoopDone /\ ~WantsTab(ep_data)
    /\ ep_pc' = "responded"
    /\ ep_response' = [status |-> 200, body |-> "results", error |-> "",
                       results |-> ep_results]
    /\ UNCHANGED <<ep_endpoint, ep_data, ep_engine, ep_outer, ep_inner, ep_i, ep_j,
                   ep_idx, ep_results, ep_visited, ep_failed, fgVars, enVars, exVars, cvVars,
                   lnVars>>

NextEndpoint ==
    \/ ValidateRequest
    \/ SetupMixture
    \/ SetupMixtureError
    \/ CalculateFlashGrid
    \/ PrepareGrids
    \/ FlashPointOk
    \/ FlashPointError
    \/ RespondResults

SpecEndpoint == InitEndpoint /\ [][NextEndpoint]_vars

(***************************************************************************)
(* The requests of the sanity script (all_flash_sanity_test_10_fluids.py   *)
(* 162-193): one point, in the flat layout.                                *)
(***************************************************************************)
SanityPressures == { Num(1), Frac(383, 10), Frac(151, 2), Num(150) }
SanityTemperatures == { Num(-50), Num(0), Num(25), Num(100) }

\* pt_payload for a test point
SanityRequest(pressure, temperature) ==
    [composition |->
        << [fluid |-> <<"C", "O", "2">>, fraction |-> Frac(9, 10)],
           [fluid |-> <<"M", "E", "T", "H", "A", "N", "E">>, fraction |-> Frac(1, 10)] >>,
     pressure_range |-> [from |-> pressure, to |-> pressure],
     temperature_range |-> [from |-> temperature, to |-> temperature],
     pressure_resolution |-> Num(1),
     temperature_resolution |-> Num(1),
     properties |-> <<"density">>,
     units_system |-> "SI"]

\* the request is posted to /pt_flash, as the script does, or to
\* /calculate, the endpoint of this layout
InitSanity ==
    /\ ep_endpoint \in {"pt_flash", "calculate"}
    /\ ep_data \in { SanityRequest(pressure, temperature) :
                        pressure \in SanityPressures,
                        temperature \in SanityTemperatures }
    /\ ep_pc = "recv"
    /\ ep_engine = <<>> /\ ep_outer = <<>> /\ ep_inner = <<>>
    /\ ep_i = 0 /\ ep_j = 0 /\ ep_idx = 0 /\ ep_results = <<>>
    /\ ep_response = NoResponse /\ ep_visited = <<>> /\ ep_failed = {}
    /\ FormatIdle
    /\ EncodeIdle
    /\ ExtractIdle
    /\ ConvertIdle
    /\ LinesIdle

NextSanity ==
    \/ ValidateRequest
    \/ SetupMixture
    \/ SetupMixtureError
    \/ PrepareGrids
    \/ FlashPointOk
    \/ FlashPointError
    \/ RespondResults

SpecSanity == InitSanity /\ [][NextSanity]_vars

(***************************************************************************)
(* Calls of format_olga_tab on result lists of bounded length.             *)
(***************************************************************************)
\* 0-based grid coordinate k of an axis that starts at `from` with step 5
GridValues(from, m) == [k \in 1..m |-> FAdd(from, Num(5 * (k - 1)))]

\* x_vars: the grid given as 'values' (pressures 1, 6, ... bar), an empty
\* 'values', the same grid asked for as a range, and a range whose ends
\* are equal
EncodeXVars ==
    { [values |-> GridValues(Num(1), MaxNx)],
      [values |-> <<>>],
      [range |-> [from |-> Num(1), to |-> Num(1 + 5 * (MaxNx - 1))],
       resolution |-> Num(5)],
      [range |-> [from |-> Num(1), to |-> Num(1)], resolution |-> Num(5)] }

\* y_vars: 'values' (temperatures 0, 5, ... C), and an empty 'values'
EncodeYVars == { [values |-> GridValues(Num(0), MaxNy)], [values |-> <<>>] }

Liquid == <<"L", "i", "q", "u", "i", "d">>

\* the results the lists are drawn from.  Each carries its own surface
\* tension, so that a cell tells which result wrote it.
EncodeResults ==
    { \* both index fields, a flat index and both axis values, each naming
      \* another cell
      [p_idx |-> Num(0), t_idx |-> Num(1), index |-> Num(2),
       pressure |-> Envelope(Num(6), "bar"), temperature |-> Envelope(Num(5), "C"),
       phase |-> Envelope(Str(Liquid), "none"), density |-> Envelope(Num(20), "mol/L"),
       critical_temperature |-> Envelope(Num(31), "C"),
       critical_pressure |-> Envelope(Num(73), "bar"),
       surface_tension |-> Envelope(Num(1), "N/m")],
      \* one index field only, a flat index and both axis values
      [p_idx |-> Num(1), index |-> Num(3),
       pressure |-> Envelope(Num(1), "bar"), temperature |-> Envelope(Num(0), "C"),
       vapor_fraction |-> Envelope(Num(1), "none"),
       critical_temperature |-> Envelope(Num(31), "C"),
       critical_pressure |-> Envelope(Num(50), "bar"),
       surface_tension |-> Envelope(Num(2), "N/m")],
      \* the axis values only
      [pressure |-> Envelope(Num(6), "bar"), temperature |-> Envelope(Num(1), "C"),
       surface_tension |-> Envelope(Num(3), "N/m")],
      \* one axis value only
      [pressure |-> Envelope(Num(6), "bar"), surface_tension |-> Envelope(Num(4), "N/m")],
      \* a negative index field
      [p_idx |-> Num(-1), t_idx |-> Num(0), surface_tension |-> Envelope(Num(5), "N/m")],
      \* an index field that is no number, beside a flat index
      [p_idx |-> Str(<<"a", "b", "c">>), t_idx |-> Num(0), index |-> Num(0),
       surface_tension |-> Envelope(Num(6), "N/m")],
      \* a flat index past the end of the grid
      [index |-> Num(99), surface_tension |-> Envelope(Num(7), "N/m")],
      \* a flat index that is no number
      [index |-> Str(<<"x">>), pressure |-> Envelope(Num(1), "bar"),
       temperature |-> Envelope(Num(0), "C"),
       surface_tension |-> Envelope(Num(8), "N/m")],
      \* a surface tension that is NaN
      [p_idx |-> Num(0), t_idx |-> Num(0), surface_tension |-> Envelope(NaN, "N/m")] }

\* a valid composition with a water component, and one with an entry that
\* has no fraction
EncodeCompositions ==
    { << [fluid |-> <<"C", "O", "2">>, fraction |-> Frac(1, 2)],
         [fluid |-> WATER, fraction |-> Frac(1, 2)] >>,
      << [fluid |-> <<"C", "O", "2">>] >> }

InitEncode ==
    /\ en_x_vars \in EncodeXVars
    /\ en_y_vars \in EncodeYVars
    /\ en_results \in SeqsUpTo(EncodeResults, MaxResults)
    /\ en_composition \in EncodeCompositions
    /\ Len(en_composition) = 1 => en_results = <<>>
    /\ en_molar_mass = Num(44)
    /\ en_endpoint_type \in {"pt_flash", "ph_flash"}
    /\ en_endpoint_type = "ph_flash" => Len(en_results) <= 1
    /\ en_pc = "call"
    /\ en_x_grid = <<>> /\ en_y_grid = <<>> /\ en_head = <<>>
    /\ en_st = ZeroTables(0, 0) /\ en_k = 0 /\ en_cells = <<>>
    /\ en_response = NoTab
    /\ en_calls = 1 /\ en_first = NoTab
    /\ en_given = <<en_x_vars, en_y_vars, en_results, en_composition,
                    en_molar_mass, en_endpoint_type>>
    /\ FormatIdle
    /\ EndpointIdle
    /\ ExtractIdle
    /\ ConvertIdle
    /\ LinesIdle

enInputs == <<en_x_vars, en_y_vars, en_results, en_composition, en_molar_mass,
              en_endpoint_type>>

\* what a call leaves alone: the record of the calls made
enCalls == <<en_calls, en_first, en_given>>

\* 22-153: the axes and the two grids
EncodeGrids ==
    /\ en_pc = "call"
    /\ en_x_grid' = x_grid_of(en_x_vars)
    /\ en_y_grid' = y_grid_of(en_y_vars)
    /\ en_pc' = "header"
    /\ UNCHANGED <<enInputs, en_head, en_st, en_k, en_cells, en_response, fgVars, epVars,
                   enCalls, exVars, cvVars,
                   lnVars>>

EncodeHeaderScalesInPlace ==
    /\ en_pc = "header"
    /\ LET header == HeaderLines(en_x_grid, en_y_grid, en_composition,
                                 en_endpoint_type)
       IN  header.ok /\ en_head' = header.v
    /\ en_x_vars' = IF Has(en_x_vars, "values")
                    THEN [en_x_vars EXCEPT
                             !.values = Scaled(en_x_grid,
                                               Axes(en_endpoint_type).x_multiplier)]
                    ELSE en_x_vars
    /\ en_pc' = "lines"
    /\ UNCHANGED <<en_y_vars, en_results, en_composition, en_molar_mass,
                   en_endpoint_type, en_x_grid, en_y_grid, en_st, en_k, en_cells,
                   en_response, fgVars, epVars, enCalls, exVars, cvVars,
                   lnVars>>

\* 155-168: the header line and the two grids as text
EncodeHeader ==
    /\ en_pc = "header"
    /\ LET header == HeaderLines(en_x_grid, en_y_grid, en_composition,
                                 en_endpoint_type)
       IN  header.ok /\ en_head' = header.v
    /\ en_pc' = "lines"
    /\ UNCHANGED <<enInputs, en_x_grid, en_y_grid, en_st, en_k, en_cells,
                   en_response, fgVars, epVars,
                   enCalls, exVars, cvVars,
                   lnVars>>

\* 170-212: the bubble and dew lines as text, the zero tables
EncodeCriticalLines ==
    /\ en_pc = "lines"
    /\ LET lines == CriticalLines(en_x_grid, en_y_grid, en_results,
                                  en_endpoint_type)
       IN  lines.ok /\ en_head' = en_head \o lines.v
    /\ en_st' = ZeroTables(Len(en_x_grid), Len(en_y_grid))
    /\ en_pc' = "loop"
    /\ UNCHANGED <<enInputs, en_x_grid, en_y_grid, en_k, en_cells, en_response,
                   fgVars, epVars,
                   enCalls, exVars, cvVars,
                   lnVars>>

EncodeErrorHeaderOnly ==
    /\ en_pc = "header"
    /\ ~fluid_desc(en_composition).ok
    /\ en_response' = ErrorResponse
    /\ en_pc' = "done"
    /\ UNCHANGED <<enInputs, en_x_grid, en_y_grid, en_head, en_st, en_k, en_cells,
                   fgVars, epVars, enCalls, exVars, cvVars, lnVars>>

\* a statement before the loop raises (the composition has no fraction, the
\* pressure grid is empty): the outer except returns the error response
\* (287-292)
EncodeError ==
    /\ \/ /\ en_pc = "header"
          /\ ~fluid_desc(en_composition).ok
       \/ /\ en_pc = "lines"
          /\ ~create_bubble_line(en_y_grid, Len(en_x_grid), en_x_grid, en_results,
                                 en_endpoint_type).ok
    /\ en_response' = ErrorResponse
    /\ en_pc' = "done"
    /\ UNCHANGED <<enInputs, en_x_grid, en_y_grid, en_head, en_st, en_k, en_cells,
                   fgVars, epVars,
                   enCalls, exVars, cvVars,
                   lnVars>>

\* one iteration of `for result in results` (215-272)
EncodeResult ==
    /\ en_pc = "loop" /\ en_k < Len(en_results)
    /\ en_st' = ProcessResult(en_st, en_results[en_k + 1], Axes(en_endpoint_type),
                              en_x_grid, en_y_grid, en_composition, en_molar_mass)
    /\ en_cells' = Append(en_cells, Locate(en_results[en_k + 1],
                                           Axes(en_endpoint_type), en_x_grid,
                                           en_y_grid))
    /\ en_k' = en_k + 1
    /\ UNCHANGED <<enInputs, en_pc, en_x_grid, en_y_grid, en_head, en_response,
                   fgVars, epVars,
                   enCalls, exVars, cvVars,
                   lnVars>>

\* after the loop: the tables are written out and the response returned
\* (274-285)
EncodeRespond ==
    /\ en_pc = "loop" /\ en_k = Len(en_results)
    /\ en_response' = TabResponse(
            en_head \o PropertyBlocks(en_st.tables, Len(olga_properties),
                                      Len(en_x_grid), Len(en_y_grid)),
            en_endpoint_type)
    /\ en_pc' = "done"
    /\ UNCHANGED <<enInputs, en_x_grid, en_y_grid, en_head, en_st, en_k, en_cells,
                   fgVars, epVars,
                   enCalls, exVars, cvVars,
                   lnVars>>

\* the caller makes the same call once more, passing the objects it passed
\* the first time
EncodeAgain ==
    /\ en_pc = "done" /\ en_calls = 1
    /\ en_first' = en_response
    /\ en_calls' = 2
    /\ en_pc' = "call"
    /\ en_x_grid' = <<>> /\ en_y_grid' = <<>> /\ en_head' = <<>>
    /\ en_st' = ZeroTables(0, 0) /\ en_k' = 0 /\ en_cells' = <<>>
    /\ en_response' = NoTab
    /\ UNCHANGED <<enInputs, en_given, fgVars, epVars, exVars, cvVars,
                   lnVars>>

NextEncode ==
    \/ EncodeGrids
    \/ EncodeHeader
    \/ EncodeCriticalLines
    \/ EncodeError
    \/ EncodeResult
    \/ EncodeRespond
    \/ EncodeAgain

SpecEncode == InitEncode /\ [][NextEncode]_vars

(***************************************************************************)
(* pt_flash asked for response_format olga_tab: the flash loops, then       *)
(* format_olga_tab on the grids of the loops (pt_flash 211-308).           *)
(***************************************************************************)
OlgaTabNames == { <<"o", "l", "g", "a", "_", "t", "a", "b">>,
                  <<"O", "L", "G", "A", "_", "T", "A", "B">> }

GridTypes == { <<"e", "q", "u", "i", "d", "i", "s", "t", "a", "n", "t">>,
               <<"a", "d", "a", "p", "t", "i", "v", "e">>,
               <<"l", "o", "g", "a", "r", "i", "t", "h", "m", "i", "c">> }

\* what generate_grid (API.utils.grid_generator) may return for the
\* pressure axis and, in C, for the temperature axis: an increasing
\* sequence of floats, not equally spaced
GeneratedPressures == { <<Num(1), Num(2), Num(4)>>, <<Num(1), Frac(7, 2)>> }
GeneratedTemperatures == { <<Num(-10), Num(30)>>, <<Num(0), Frac(1, 2)>> }

\* requests to /pt_flash for a table: the pressure range spans one or two
\* steps, the temperature range none or one
TabRequests ==
    { [composition |->
          << [fluid |-> <<"C", "O", "2">>, fraction |-> Frac(9, 10)],
             [fluid |-> <<"M", "E", "T", "H", "A", "N", "E">>,
              fraction |-> Frac(1, 10)] >>,
       variables |->
          [pressure |-> AxisSpec(XFrom, FAdd(XFrom, FMul(Num(kx), XRes)), XRes),
           temperature |-> AxisSpec(Num(0), FMul(Num(ky), YRes), YRes)],
       calculation |-> [properties |-> <<"density">>,
                        response_format |-> format,
                        grid_type |-> grid_type]] :
        kx \in 1..2, ky \in 0..1, format \in OlgaTabNames, grid_type \in GridTypes }

InitTab ==
    /\ ep_endpoint = "pt_flash"
    /\ ep_data \in TabRequests
    /\ ep_pc = "recv"
    /\ ep_engine = <<>> /\ ep_outer = <<>> /\ ep_inner = <<>>
    /\ ep_i = 0 /\ ep_j = 0 /\ ep_idx = 0 /\ ep_results = <<>>
    /\ ep_response = NoResponse /\ ep_visited = <<>> /\ ep_failed = {}
    /\ FormatIdle
    /\ EncodeIdle
    /\ ExtractIdle
    /\ ConvertIdle
    /\ LinesIdle

\* 212-244: the grids of another grid_type come from generate_grid, the
\* temperatures in C and then converted to K; results = [], idx = 0
GenerateGrids ==
    /\ ep_pc = "mixture" /\ ep_endpoint = "pt_flash" /\ ~Equidistant(ep_data)
    /\ \E P_range \in GeneratedPressures, T_range_C \in GeneratedTemperatures :
          /\ ep_outer' = P_range
          /\ ep_inner' = [k \in 1..Len(T_range_C) |-> FAdd(T_range_C[k], Kelvin)]
    /\ ep_pc' = "loop"
    /\ ep_i' = 0 /\ ep_j' = 0 /\ ep_idx' = 0 /\ ep_results' = <<>>
    /\ UNCHANGED <<ep_endpoint, ep_data, ep_engine, ep_response, ep_visited,
                   ep_failed, fgVars, enVars, exVars, cvVars, lnVars>>

\* T_range - 273.15
Celsius(T_range) == [k \in 1..Len(T_range) |-> FSub(T_range[k], Kelvin)]

\* pressure_vars and temperature_vars (288-298)
TabVars(grid, resolution) ==
    [range |-> [from |-> MinOf(grid), to |-> MaxOf(grid)],
     resolution |-> resolution,
     values |-> grid]

FormatTabInKelvin ==
    /\ ep_pc = "loop" /\ LoopDone /\ WantsTab(ep_data)
    /\ ep_outer # <<>> /\ ep_inner # <<>>
    /\ ep_pc' = "format"
    /\ en_x_vars' = TabVars(ep_outer,
                        Get(ep_data.variables.pressure, "resolution", Num(10)))
    /\ en_y_vars' = TabVars(ep_inner,
                        Get(ep_data.variables.temperature, "resolution", Num(5)))
    /\ en_results' = ep_results
    /\ en_composition' = ep_data.composition
    /\ en_molar_mass' = Num(44)
    /\ en_endpoint_type' = "pt_flash"
    /\ en_pc' = "call"
    /\ en_calls' = 1
    /\ en_given' = <<en_x_vars', en_y_vars', en_results', en_composition',
                     en_molar_mass', en_endpoint_type'>>
    /\ UNCHANGED <<ep_endpoint, ep_data, ep_engine, ep_outer, ep_inner, ep_i, ep_j,
                   ep_idx, ep_results, ep_response, ep_visited, ep_failed,
                   en_x_grid, en_y_grid, en_head, en_st, en_k, en_cells,
                   en_response, en_first, fgVars, exVars, cvVars, lnVars>>

\* 284-306: after the loops, format_olga_tab is called with the grids of
\* the loops as 'values', the temperatures in C, and with the results, the
\* composition and the molar mass; min() of an empty grid raises and is
\* answered with 500
FormatTab ==
    /\ ep_pc = "loop" /\ LoopDone /\ WantsTab(ep_data)
    /\ IF ep_outer = <<>> \/ ep_inner = <<>>
       THEN /\ RespondError(500, "Error formatting OLGA TAB response")
            /\ UNCHANGED enVars
       ELSE /\ ep_pc' = "format"
            /\ en_x_vars' = TabVars(ep_outer,
                                Get(ep_data.variables.pressure, "resolution", Num(10)))
            /\ en_y_vars' = TabVars(Celsius(ep_inner),
                                Get(ep_data.variables.temperature, "resolution", Num(5)))
            /\ en_results' = ep_results
            /\ en_composition' = ep_data.composition
            /\ en_molar_mass' = Num(44)
            /\ en_endpoint_type' = "pt_flash"
            /\ en_pc' = "call"
            /\ en_calls' = 1
            /\ en_given' = <<en_x_vars', en_y_vars', en_results', en_composition',
                             en_molar_mass', en_endpoint_type'>>
            /\ UNCHANGED <<ep_response, en_x_grid, en_y_grid, en_head, en_st, en_k,
                           en_cells, en_response, en_first>>
    /\ UNCHANGED <<ep_endpoint, ep_data, ep_engine, ep_outer, ep_inner, ep_i, ep_j,
                   ep_idx, ep_results, ep_visited, ep_failed, fgVars, exVars,
                   cvVars, lnVars>>

\* 307: return response, the Response object of format_olga_tab
ReturnTab ==
    /\ ep_pc = "format" /\ en_pc = "done"
    /\ ep_pc' = "responded"
    /\ ep_response' = [status |-> en_response.status, body |-> "olga_tab",
                       error |-> "", results |-> <<>>]
    /\ UNCHANGED <<ep_endpoint, ep_data, ep_engine, ep_outer, ep_inner, ep_i, ep_j,
                   ep_idx, ep_results, ep_visited, ep_failed, fgVars, enVars,
                   exVars, cvVars, lnVars>>

NextTab ==
    \/ ValidateRequest
    \/ SetupMixture
    \/ SetupMixtureError
    \/ PrepareGrids
    \/ GenerateGrids
    \/ FlashPointOk
    \/ FlashPointError
    \/ FormatTab
    \/ EncodeGrids
    \/ EncodeHeader
    \/ EncodeCriticalLines
    \/ EncodeResult
    \/ EncodeRespond
    \/ ReturnTab

SpecTab == InitTab /\ [][NextTab]_vars

(***************************************************************************)
(* Calls of format_olga_tab that fill the property tables.                 *)
(***************************************************************************)
Vapor == <<"V", "a", "p", "o", "r">>

\* the results of a flash the tables are filled from: each names its cell
\* by the two index fields
TableResults ==
    { \* a liquid point with its own liquid_cp beside the base keys
      [p_idx |-> Num(0), t_idx |-> Num(0),
       phase |-> Envelope(Str(Liquid), "none"),
       liquid_cp |-> Envelope(Num(80), "J/(mol K)"),
       cp |-> Envelope(Num(90), "J/(mol K)"),
       thermal_conductivity |-> Envelope(Frac(1, 2), "W/(m K)"),
       density |-> Envelope(Num(20), "mol/L")],
      \* a vapor point without vapor_fraction, its specific heat and its
      \* thermal conductivity too large
      [p_idx |-> Num(0), t_idx |-> Num(0),
       phase |-> Envelope(Str(Vapor), "none"),
       cp |-> Envelope(Num(2000000), "J/(mol K)"),
       vapor_thermal_conductivity |-> Envelope(Num(5000), "W/(m K)"),
       density |-> Envelope(Num(2), "mol/L")],
      \* a two-phase point with a negative specific heat and a negative
      \* thermal conductivity
      [p_idx |-> Num(0), t_idx |-> Num(1),
       vapor_fraction |-> Envelope(Frac(1, 2), "none"),
       cp |-> Envelope(Num(-5), "J/(mol K)"),
       thermal_conductivity |-> Envelope(Num(-1), "W/(m K)")],
      \* a liquid point whose thermal conductivity is NaN and whose specific
      \* heat is large once it is per kilogram
      [p_idx |-> Num(0), t_idx |-> Num(0),
       phase |-> Envelope(Str(Liquid), "none"),
       cp |-> Envelope(Num(500000), "J/(mol K)"),
       thermal_conductivity |-> Envelope(NaN, "W/(m K)")],
      \* a vapor point whose thermal conductivity is infinite
      [p_idx |-> Num(0), t_idx |-> Num(1),
       vapor_fraction |-> Envelope(Num(1), "none"),
       cp |-> Envelope(Num(40), "J/(mol K)"),
       thermal_conductivity |-> Envelope(PosInf, "W/(m K)")],
      \* a liquid point with no property but the surface tension
      [p_idx |-> Num(0), t_idx |-> Num(0),
       phase |-> Envelope(Str(Liquid), "none"),
       surface_tension |-> Envelope(Num(3), "N/m")],
      \* a point of unknown phase with the base keys only
      [p_idx |-> Num(0), t_idx |-> Num(0),
       density |-> Envelope(Num(30), "mol/L"),
       cp |-> Envelope(Num(70), "J/(mol K)"),
       thermal_conductivity |-> Envelope(Num(1), "W/(m K)")],
      \* a liquid point, with its density only, at the cell of the points
      \* that have a vapor fraction
      [p_idx |-> Num(0), t_idx |-> Num(1),
       phase |-> Envelope(Str(Liquid), "none"),
       density |-> Envelope(Num(25), "mol/L")],
      \* a point off the grid
      [p_idx |-> Num(99), t_idx |-> Num(0),
       phase |-> Envelope(Str(Vapor), "none"),
       cp |-> Envelope(Num(40), "J/(mol K)")] }

InitTables ==
    /\ en_x_vars \in { [values |-> GridValues(Num(1), MaxNx)], [values |-> <<>>] }
    /\ en_y_vars = [values |-> GridValues(Num(0), MaxNy)]
    /\ en_results \in SeqsUpTo(TableResults, MaxResults)
    /\ en_composition \in EncodeCompositions
    /\ (Len(en_composition) = 1 \/ en_x_vars.values = <<>>) => en_results = <<>>
    /\ en_molar_mass \in {Num(44), Num(18)}
    /\ en_endpoint_type = "pt_flash"
    /\ en_pc = "call"
    /\ en_x_grid = <<>> /\ en_y_grid = <<>> /\ en_head = <<>>
    /\ en_st = ZeroTables(0, 0) /\ en_k = 0 /\ en_cells = <<>>
    /\ en_response = NoTab
    /\ en_calls = 1 /\ en_first = NoTab
    /\ en_given = <<en_x_vars, en_y_vars, en_results, en_composition,
                    en_molar_mass, en_endpoint_type>>
    /\ FormatIdle
    /\ EndpointIdle
    /\ ExtractIdle
    /\ ConvertIdle
    /\ LinesIdle

SpecTables == InitTables /\ [][NextEncode]_vars

(***************************************************************************)
(* Calls of extract_property_value.                                        *)
(***************************************************************************)
HEAVYWATER == <<"H", "E", "A", "V", "Y">> \o WATER
METHANE == <<"M", "E", "T", "H", "A", "N", "E">>

\* the results a call is made for: one with phase-specific keys beside the
\* base keys, one with the base keys only, one with values out of range,
\* one whose fields hold no value, and one without a property
ExtractResults ==
    { [liquid_density |-> Envelope(Num(20), "mol/L"),
       density |-> Envelope(Num(30), "mol/L"),
       vapor_cp |-> Num(7), cp |-> Envelope(Num(9), "J/(mol K)"),
       liquid_thermal_conductivity |-> Envelope(Num(5000), "W/(m K)"),
       water_liquid |-> Envelope(Frac(1, 4), "none"),
       x |-> Envelope(List(<<Frac(1, 5), Frac(4, 5)>>), "none")],
      [density |-> Envelope(Num(30), "mol/L"), viscosity |-> Envelope(Num(31), "uPa s"),
       cp |-> Envelope(Num(32), "J/(mol K)"), enthalpy |-> Envelope(Num(33), "J/mol"),
       entropy |-> Envelope(Num(34), "J/(mol K)"),
       thermal_conductivity |-> Envelope(Num(35), "W/(m K)"),
       dDdP |-> Envelope(Num(36), "mol/(L kPa)"),
       dDdT |-> Envelope(Num(37), "mol/(L K)"),
       fraction |-> Envelope(Frac(1, 2), "none"),
       x |-> Envelope(List(<<Frac(1, 5), Frac(4, 5)>>), "none"),
       y |-> List(<<Frac(3, 5), Frac(2, 5)>>)],
      [cp |-> Envelope(Num(2000000), "J/(mol K)"), liquid_cp |-> Num(-3000000),
       thermal_conductivity |-> Envelope(Num(5000), "W/(m K)"),
       x |-> Envelope(List(<<Frac(1, 5)>>), "none"),
       y |-> Envelope(List(<<>>), "none")],
      [density |-> Envelope(None, "mol/L"), cp |-> Envelope(None, "J/(mol K)"),
       vapor_cp |-> None, x |-> Envelope(None, "none")],
      [index |-> Num(0)] }

ExtractPhases == {"liquid", "vapor", "two-phase", "unknown"}

\* compositions with water as the second component, with a component
\* whose name contains WATER before it, and without water
ExtractCompositions ==
    { << [fluid |-> <<"C", "O", "2">>, fraction |-> Frac(1, 2)],
         [fluid |-> WATER, fraction |-> Frac(1, 2)] >>,
      << [fluid |-> HEAVYWATER, fraction |-> Frac(1, 2)],
         [fluid |-> WATER, fraction |-> Frac(1, 2)] >>,
      << [fluid |-> <<"C", "O", "2">>, fraction |-> Frac(1, 2)],
         [fluid |-> METHANE, fraction |-> Frac(1, 2)] >> }

InitExtract ==
    /\ ex_result \in ExtractResults
    /\ ex_key \in { olga_properties[p].key : p \in 1..Len(olga_properties) }
    /\ ex_phase \in ExtractPhases
    /\ ex_composition \in ExtractCompositions
    /\ ex_composition # << [fluid |-> <<"C", "O", "2">>, fraction |-> Frac(1, 2)],
                            [fluid |-> WATER, fraction |-> Frac(1, 2)] >>
           => ex_key \in {"water_liquid", "water_vapor"}
    /\ ex_value = None
    /\ ex_pc = "call"
    /\ FormatIdle
    /\ EndpointIdle
    /\ EncodeIdle
    /\ ConvertIdle
    /\ LinesIdle

\* the call returns
ExtractPropertyValueCall ==
    /\ ex_pc = "call"
    /\ ex_value' = extract_property_value(ex_result, ex_key, ex_phase,
                                          ex_composition, Num(44))
    /\ ex_pc' = "done"
    /\ UNCHANGED <<ex_result, ex_key, ex_phase, ex_composition, fgVars, epVars,
                   enVars, cvVars, lnVars>>

NextExtract == ExtractPropertyValueCall

SpecExtract == InitExtract /\ [][NextExtract]_vars

(***************************************************************************)
(* Calls of convert_vapor_fraction_to_mass.                                *)
(***************************************************************************)
\* the arguments: the quarters around [0, 1], the three flags and their
\* neighbours, the floats that are not finite, None, a str and a list
ConvertInputs ==
    { Frac(k, 4) : k \in (-MaxQuarters)..MaxQuarters }
    \cup { Num(998), Num(-998), Num(999), Num(997), Num(-999), Num(1000),
           Frac(9985, 10), NaN, PosInf, NegInf, None,
           Str(<<"9", "9", "8">>), List(<<Num(1)>>) }

InitConvert ==
    /\ cv_q \in ConvertInputs
    /\ cv_out = None
    /\ cv_pc = "call"
    /\ FormatIdle
    /\ EndpointIdle
    /\ EncodeIdle
    /\ ExtractIdle
    /\ LinesIdle

\* the call returns
ConvertVaporFractionCall ==
    /\ cv_pc = "call"
    /\ cv_out' = convert_vapor_fraction_to_mass(cv_q)
    /\ cv_pc' = "done"
    /\ UNCHANGED <<cv_q, fgVars, epVars, enVars, exVars, lnVars>>

NextConvert == ConvertVaporFractionCall

SpecConvert == InitConvert /\ [][NextConvert]_vars

(***************************************************************************)
(* Calls of create_bubble_line and create_dew_line, as format_olga_tab     *)
(* makes them (176-179): the bubble line first, then the dew line.         *)
(***************************************************************************)
\* y grids: the temperatures 0, 5, ... C, and one that falls
LineTemps ==
    { GridValues(Num(0), m) : m \in 0..(MaxNy + 1) } \cup { <<Num(10), Num(0)>> }

\* x grids in bar: rising, falling, starting at zero, with a negative
\* pressure, of one point, and empty
LinePressures ==
    { GridValues(Num(1), MaxNx + 1), <<Num(11), Num(6), Num(1)>>,
      GridValues(Num(0), MaxNx), <<Num(-5), Num(5)>>, <<Num(-10), Num(-5)>>,
      <<Num(2)>>, <<>> }

\* results: none, one with a critical point, one without, and one whose
\* critical pressure is a str
LineResults ==
    { <<>>,
      << [pressure |-> Envelope(Num(6), "bar"),
          critical_temperature |-> Envelope(Num(31), "C"),
          critical_pressure |-> Envelope(Num(73), "bar")] >>,
      << [pressure |-> Envelope(Num(6), "bar")] >>,
      << [critical_temperature |-> Envelope(Num(31), "C"),
          critical_pressure |-> Envelope(Str(<<"7", "3">>), "bar")] >> }

InitLines ==
    /\ ln_temps \in LineTemps
    /\ ln_pressures \in LinePressures
    /\ ln_results \in LineResults
    /\ ln_pc = "bubble" /\ ln_i = 0 /\ ln_visited = <<>>
    /\ ln_bubble = <<>> /\ ln_dew = <<>>
    /\ FormatIdle
    /\ EndpointIdle
    /\ EncodeIdle
    /\ ExtractIdle
    /\ ConvertIdle

lnInputs == <<ln_temps, ln_pressures, ln_results>>

\* create_bubble_line raises before its loop
BubbleRaise ==
    /\ ln_pc = "bubble" /\ ln_i = 0
    /\ LinesRaise(ln_pressures, ln_results)
    /\ ln_pc' = "raised"
    /\ UNCHANGED <<lnInputs, ln_i, ln_visited, ln_bubble, ln_dew, fgVars, epVars,
                   enVars, exVars, cvVars>>

\* one iteration of the loop of create_bubble_line (345-349)
BubbleStep ==
    /\ ln_pc = "bubble" /\ ~LinesRaise(ln_pressures, ln_results)
    /\ ln_i < Len(ln_temps)
    /\ ln_bubble' = Append(ln_bubble, bubble_pressure(ln_i, ln_temps, ln_pressures))
    /\ ln_i' = ln_i + 1
    /\ UNCHANGED <<lnInputs, ln_pc, ln_visited, ln_dew, fgVars, epVars, enVars,
                   exVars, cvVars>>

\* create_bubble_line returns (351) and create_dew_line is called
BubbleReturn ==
    /\ ln_pc = "bubble" /\ ~LinesRaise(ln_pressures, ln_results)
    /\ ln_i = Len(ln_temps)
    /\ ln_pc' = "dew"
    /\ ln_i' = 0
    /\ UNCHANGED <<lnInputs, ln_visited, ln_bubble, ln_dew, fgVars, epVars, enVars,
                   exVars, cvVars>>

\* one iteration of the loop of create_dew_line (385-389)
DewStep ==
    /\ ln_pc = "dew"
    /\ ln_i < Len(ln_temps)
    /\ ln_visited' = Append(ln_visited, reversed(ln_temps)[ln_i + 1])
    /\ ln_dew' = Append(ln_dew, dew_pressure(ln_i, ln_temps, ln_pressures))
    /\ ln_i' = ln_i + 1
    /\ UNCHANGED <<lnInputs, ln_pc, ln_bubble, fgVars, epVars, enVars, exVars,
                   cvVars>>

\* create_dew_line returns (391)
DewReturn ==
    /\ ln_pc = "dew"
    /\ ln_i = Len(ln_temps)
    /\ ln_pc' = "done"
    /\ UNCHANGED <<lnInputs, ln_i, ln_visited, ln_bubble, ln_dew, fgVars, epVars,
                   enVars, exVars, cvVars>>

NextLines ==
    \/ BubbleRaise
    \/ BubbleStep
    \/ BubbleReturn
    \/ DewStep
    \/ DewReturn

SpecLines == InitLines /\ [][NextLines]_vars

(***************************************************************************)
(* Reading the returned text back.                                         *)
(***************************************************************************)
\* the blank-separated fields of a line
Fields(line) == SelectSeq(Split(line, " "), LAMBDA f : f # <<>>)

\* the fields of all lines, in order
RECURSIVE AllFields(_)
AllFields(lines) ==
    IF lines = <<>> THEN <<>> ELSE Fields(Head(lines)) \o AllFields(Tail(lines))

IsDigit(c) == c \in { Digits[k] : k \in 1..10 }

\* optional '-', '.', exactly six digits, 'E', a sign, two digits
ShapeOK(tok) ==
    LET body == IF tok # <<>> /\ tok[1] = "-" THEN Tail(tok) ELSE tok
    IN  /\ Len(body) = 11
        /\ body[1] = "."
        /\ \A k \in 2..7 : IsDigit(body[k])
        /\ body[8] = "E"
        /\ body[9] \in {"+", "-"}
        /\ IsDigit(body[10]) /\ IsDigit(body[11])

\* the text .mmmmmmE+ee of a finite nonzero float in the normalised form
\* 0.mmmmmm x 10^ee with the float rounded to six significant digits
NormalisedText(val) ==
    LET a == FAbs(val)
        nm == Normalise(a.n, a.d, 0)
        ld == LongDiv(nm.n, nm.d, 5)
        up == 2 * ld.r > nm.d \/ (2 * ld.r = nm.d /\ ld.q % 2 = 1)
        q0 == IF up THEN ld.q + 1 ELSE ld.q
        carry == q0 = Pow10(6)
        q == IF carry THEN Pow10(5) ELSE q0
        e == (IF carry THEN nm.e + 1 ELSE nm.e) + 1
    IN  (IF val.n < 0 THEN <<"-">> ELSE <<>>) \o <<".">> \o NatChars(q)
        \o <<"E">> \o ExpChars(e)

AllFormattable(values) == \A i \in 1..Len(values) : FormatValue(values[i]).ok

\* C1: the encoder renders every nonzero finite value in the normalised
\* form 0.mmmmmm x 10^ee that denotes the value to six significant digits
\* (1234.56 as .123456E+04, -0.0001 as -.100000E-03).
C1_EncoderDenotesValue ==
    (fg_pc = "done" /\ AllFormattable(fg_values)) =>
        \A i \in 1..Len(fg_values) :
            (IsFinite(fg_values[i]) /\ fg_values[i].n # 0) =>
                AllFields(fg_out)[i] = NormalisedText(fg_values[i])

\* C2: every value emitted has the shape [-].dddddd E sign dd, the '-'
\* exactly for the negative values.
C2_FixedShape ==
    fg_pc = "done" =>
        /\ \A i \in 1..Len(AllFields(fg_out)) : ShapeOK(AllFields(fg_out)[i])
        /\ AllFormattable(fg_values) =>
              \A i \in 1..Len(fg_values) :
                  (AllFields(fg_out)[i][1] = "-") <=> FLt(fg_values[i], Num(0))

(***************************************************************************)
(* The flash loops.                                                        *)
(***************************************************************************)
\* the (i, j) pairs of an nx by ny grid in row-major order
RowMajor(nx, ny) == [k \in 1..(nx * ny) |-> <<(k - 1) \div ny, (k - 1) % ny>>]

\* the values of the outer and the inner axis a result was computed for
ResultPoint(endpoint, r) ==
    CASE endpoint = "pt_flash" ->
            <<r.pressure.value, FAdd(r.temperature.value, Kelvin)>>
      [] endpoint = "ph_flash" -> <<r.pressure.value, r.enthalpy.value>>
      [] OTHER -> <<FAdd(r.temperature.value, Kelvin), r.pressure.value>>

\* the results computed for the grid point (i, j)
ResultsAt(i, j) ==
    { k \in 1..Len(ep_results) :
        ResultPoint(ep_endpoint, ep_results[k]) = <<ep_outer[i + 1], ep_inner[j + 1]>> }

\* the grid position of a result's point
PositionOf(r) ==
    CHOOSE p \in (0..(Len(ep_outer) - 1)) \X (0..(Len(ep_inner) - 1)) :
        ResultPoint(ep_endpoint, r) = <<ep_outer[p[1] + 1], ep_inner[p[2] + 1]>>

\* C3: a flash failure at a grid point never aborts the batch: the loop
\* visits every (x, y) pair in order, the results hold exactly one entry for
\* each point that succeeded and none for a point that failed, and the
\* request completes with the results payload.
C3_FailureNeverAborts ==
    LET all == RowMajor(Len(ep_outer), Len(ep_inner))
    IN  /\ Len(ep_visited) <= Len(all)
        /\ ep_visited = SubSeq(all, 1, Len(ep_visited))
        /\ ep_failed # {} => (ep_pc = "loop" \/ ep_response.body = "results")
        /\ ep_response.body = "results" =>
              /\ ep_visited = all
              /\ ep_response.status = 200
              /\ ep_response.results = ep_results
              /\ \A k \in 1..Len(all) :
                    Cardinality(ResultsAt(all[k][1], all[k][2]))
                        = IF all[k] \in ep_failed THEN 0 ELSE 1

\* a request answered with results some of whose points failed and some
\* succeeded
C3_Witness ==
    /\ ep_response.body = "results"
    /\ ep_failed # {}
    /\ ep_results # <<>>

\* C4: the result appended for the grid point (i, j) carries
\* index = i*ny + j, and x_idx = i, y_idx = j where it carries indices,
\* whatever happened at the other points.
C4_RowMajorIndex ==
    \A k \in 1..Len(ep_results) :
        LET r == ep_results[k]
            p == PositionOf(r)
        IN  /\ r.index = Num(p[1] * Len(ep_inner) + p[2])
            /\ Has(r, "p_idx") => r.p_idx = Num(p[1])
            /\ Has(r, "t_idx") => r.t_idx = Num(p[2])

\* C5: in pt_flash, len(results) <= nx*ny, every (p_idx, t_idx) lies in
\* [0,nx) x [0,ny) and no two results carry the same pair.
C5_PtIndicesUniqueInBounds ==
    ep_endpoint = "pt_flash" =>
        /\ Len(ep_results) <= Len(ep_outer) * Len(ep_inner)
        /\ \A k \in 1..Len(ep_results) :
              /\ ep_results[k].p_idx \in { Num(i) : i \in 0..(Len(ep_outer) - 1) }
              /\ ep_results[k].t_idx \in { Num(j) : j \in 0..(Len(ep_inner) - 1) }
        /\ \A k, l \in 1..Len(ep_results) :
              k # l => <<ep_results[k].p_idx, ep_results[k].t_idx>>
                         # <<ep_results[l].p_idx, ep_results[l].t_idx>>

\* pt_flash has answered with several results after a failure
C5_Witness ==
    /\ ep_endpoint = "pt_flash"
    /\ ep_response.body = "results"
    /\ Len(ep_results) >= 2
    /\ ep_failed # {}

\* the fractions of a well-formed composition are off 1 by 1e-6 or more
OffOne(composition) ==
    LET diff == FSub(FractionSum(composition), Num(1))
    IN  ~FLt(FAbs(diff), Frac(1, 1000000))

\* C6: a request whose fractions do not sum to 1 within 1e-6 is rejected by
\* every endpoint before any call to the native engine.
C6_RejectedBeforeEngine ==
    (/\ Has(ep_data, "composition")
     /\ ~FractionMissing(ep_data.composition)
     /\ OffOne(ep_data.composition)) =>
        /\ ep_engine = <<>>
        /\ ep_pc \in {"recv", "responded"}
        /\ ep_pc = "responded" => ep_response.status = 400

\* a complete request with fractions summing to 0.99 has been rejected
C6_Witness ==
    /\ ep_pc = "responded"
    /\ Has(ep_data, "composition")
    /\ ~FractionMissing(ep_data.composition)
    /\ FractionSum(ep_data.composition) = Frac(99, 100)
    /\ ep_response.error = "Invalid composition - fractions must sum to 1"

(***************************************************************************)
(* The encoder: where a result goes.                                       *)
(***************************************************************************)
HasValue(result, key) == Has(result, key) /\ ~IsNone(result[key])

\* the rule that places a result: the first that applies of the index
\* fields, the flat index and the axis values
RuleFor(result, axes) ==
    IF HasValue(result, axes.x_idx_name) /\ HasValue(result, axes.y_idx_name)
    THEN "idx_fields"
    ELSE IF Has(result, "index") THEN "index"
    ELSE IF Has(result, axes.x_name) /\ Has(result, axes.y_name) THEN "values"
    ELSE "none"

\* the 0-based coordinates of `grid` nearest to the number `value`
Nearest(grid, value) ==
    { i \in 0..(Len(grid) - 1) :
        \A k \in 1..Len(grid) :
            FLe(FAbs(FSub(grid[i + 1], value)), FAbs(FSub(grid[k], value))) }

\* the cells (x, y) the rule of a result names: one cell for index fields
\* and flat indices that are integers, the nearest cells for axis values,
\* none otherwise
CellsFor(result, axes, x_grid, y_grid) ==
    LET rule == RuleFor(result, axes)
        ny == Len(y_grid)
    IN  IF rule = "idx_fields"
        THEN (IF PyInt(result[axes.x_idx_name]).ok /\ PyInt(result[axes.y_idx_name]).ok
              THEN {<<PyInt(result[axes.x_idx_name]).v,
                      PyInt(result[axes.y_idx_name]).v>>}
              ELSE {})
        ELSE IF rule = "index"
        THEN (IF PyInt(result.index).ok /\ ny > 0
              THEN {<<PyInt(result.index).v \div ny, PyInt(result.index).v % ny>>}
              ELSE {})
        ELSE IF rule = "values"
        THEN Nearest(x_grid, get_value_from_field(result[axes.x_name]))
             \X Nearest(y_grid, get_value_from_field(result[axes.y_name]))
        ELSE {}

\* the cells of the grid
GridCells(x_grid, y_grid) == (0..(Len(x_grid) - 1)) \X (0..(Len(y_grid) - 1))

\* the result has indices, and they are out of bounds or no integers
Dropped(result, axes, x_grid, y_grid) ==
    /\ RuleFor(result, axes) # "none"
    /\ CellsFor(result, axes, x_grid, y_grid) \cap GridCells(x_grid, y_grid) = {}

\* C7: each result the loop has taken was placed by the first rule that
\* applies to it: by its two index fields if it has both, else by its flat
\* index as (index div ny, index mod ny), else by the nearest grid
\* coordinates of its two axis values, else not at all; it was written to
\* the grid exactly when that rule names a cell of the grid, and to that cell.
C7_CellPriority ==
    \A k \in 1..Len(en_cells) :
        LET result == en_results[k]
            axes == Axes(en_endpoint_type)
            cells == CellsFor(result, axes, en_x_grid, en_y_grid)
                         \cap GridCells(en_x_grid, en_y_grid)
            at == en_cells[k]
        IN  /\ at.rule = RuleFor(result, axes)
            /\ RuleFor(result, axes) = "none" <=> at.outcome = "skipped"
            /\ at.outcome = "mapped" <=> cells # {}
            /\ at.outcome = "mapped" => <<at.x_idx.n, at.y_idx.n>> \in cells

\* the loop has placed one result by its index fields though it also has a
\* flat index and axis values that name other cells, and one by its flat
\* index though it also has axis values that name another cell
C7_Witness ==
    /\ en_pc = "done" /\ en_response.status = 200
    /\ \E k \in 1..Len(en_cells) :
          /\ en_cells[k].outcome = "mapped" /\ en_cells[k].rule = "idx_fields"
          /\ Has(en_results[k], "index") /\ Has(en_results[k], "pressure")
          /\ en_results[k].index # Num(en_cells[k].x_idx.n * Len(en_y_grid)
                                        + en_cells[k].y_idx.n)
    /\ \E k \in 1..Len(en_cells) :
          /\ en_cells[k].outcome = "mapped" /\ en_cells[k].rule = "index"
          /\ Has(en_results[k], "pressure") /\ Has(en_results[k], "temperature")
          /\ <<en_cells[k].x_idx.n, en_cells[k].y_idx.n>> \notin
                 Nearest(en_x_grid, en_results[k].pressure.value)
                 \X Nearest(en_y_grid, en_results[k].temperature.value)

\* the results that are not dropped, in their order
Kept(results, axes, x_grid, y_grid) ==
    LET keep(result) == ~Dropped(result, axes, x_grid, y_grid)
    IN  SelectSeq(results, keep)

\* C8: results whose indices are out of bounds (negative ones included) or
\* are no integers leave no trace: the tables and the response are those
\* of the same call without them, and the loop has taken every result.
C8_DroppedSilently ==
    en_pc = "done" =>
        LET axes == Axes(en_endpoint_type)
            x_grid == x_grid_of(en_x_vars)
            y_grid == y_grid_of(en_y_vars)
            kept == Kept(en_results, axes, x_grid, y_grid)
        IN  /\ en_response = format_olga_tab(en_x_vars, en_y_vars, kept,
                                            en_composition, en_molar_mass,
                                            en_endpoint_type)
            /\ en_response.status = 200 =>
                  /\ en_k = Len(en_results)
                  /\ en_st = ProcessResults(kept, Len(kept), axes, x_grid, y_grid,
                                            en_composition, en_molar_mass)

\* a call has returned the table after its loop met a result with a
\* negative index, or one with an index that is no integer, and later one
\* that it wrote
C8_Witness ==
    /\ en_pc = "done" /\ en_response.status = 200
    /\ \E k \in 1..Len(en_results) :
          /\ Dropped(en_results[k], Axes(en_endpoint_type), en_x_grid, en_y_grid)
          /\ \/ Get(en_results[k], "p_idx", None) = Num(-1)
             \/ IsStr(Get(en_results[k], "p_idx", None))
          /\ \E m \in (k + 1)..Len(en_results) : en_cells[m].outcome = "mapped"

(***************************************************************************)
(* The encoder: the shape of the text.                                     *)
(***************************************************************************)
IsHeading(line) == Has(line, "heading")

\* the places of the heading lines in the text, in order
HeadingPlaces(lines) ==
    SelectSeq([i \in 1..Len(lines) |-> i], LAMBDA i : IsHeading(lines[i]))

\* the fields of the lines strictly between places a and b
FieldsBetween(lines, a, b) ==
    AllFields([i \in 1..(b - a - 1) |-> lines[a + i].text])

\* the fields of the p-th property table of the text
TableFields(lines, p) ==
    LET places == HeadingPlaces(lines)
    IN  FieldsBetween(lines, places[p],
                      IF p < Len(places) THEN places[p + 1] ELSE Len(lines) + 1)

\* the number of lines that hold n values
LinesFor(n) == (n + ValuesPerLine - 1) \div ValuesPerLine

ZeroText == <<".", "0", "0", "0", "0", "0", "0", "E", "+", "0", "0">>

\* the cells some result of the list was written to
WrittenCells ==
    { <<en_cells[k].x_idx.n, en_cells[k].y_idx.n>> :
        k \in { m \in 1..Len(en_cells) : en_cells[m].outcome = "mapped" } }

\* the header line names nx and ny, the x grid follows with nx values and
\* the y grid with ny values, and the headings are those of the property
\* list in its order
FrameOK(lines) ==
    LET header == Fields(lines[1].text)
        nx == DigitsValue(header[Len(header) - 2])
        ny == DigitsValue(header[Len(header) - 1])
        places == HeadingPlaces(lines)
    IN  /\ nx = Len(en_x_grid) /\ ny = Len(en_y_grid)
        /\ Len(FieldsBetween(lines, 1, 2 + LinesFor(nx))) = nx
        /\ Len(FieldsBetween(lines, 1 + LinesFor(nx),
                             2 + LinesFor(nx) + LinesFor(ny))) = ny
        /\ Len(places) = Len(olga_properties)
        /\ \A p \in 1..Len(places) :
              lines[places[p]].heading = olga_properties[p].name

\* the p-th table holds nx*ny values, zero in every cell no result was
\* written to
TableOK(lines, p) ==
    LET nx == Len(en_x_grid)
        ny == Len(en_y_grid)
        fields == TableFields(lines, p)
    IN  /\ Len(fields) = nx * ny
        /\ \A k \in 1..(nx * ny) :
              <<(k - 1) \div ny, (k - 1) % ny>> \notin WrittenCells
                  => fields[k] = ZeroText

\* the p-th table has a cell that holds NaN or an infinity
HasNonFinite(p) ==
    \E cell \in DOMAIN en_st.tables[olga_properties[p].name] :
        ~IsFinite(en_st.tables[olga_properties[p].name][cell])

\* C9: the text of every call that returns the table has, for
\* each property of the list and in its order, a heading and then exactly
\* nx*ny values, nx and ny being the lengths in the header line and the
\* numbers of x and y values written; cells without a result hold 0.
C9_TableShape ==
    (en_pc = "done" /\ en_response.status = 200) =>
        /\ FrameOK(en_response.lines)
        /\ \A p \in 1..Len(olga_properties) : TableOK(en_response.lines, p)

\* the same for the property tables whose cells are all finite; a table with
\* a cell that is NaN or infinite is written as the single line that holds
\* one zero
C9_TableShapeFinite ==
    (en_pc = "done" /\ en_response.status = 200) =>
        /\ FrameOK(en_response.lines)
        /\ \A p \in 1..Len(olga_properties) :
              IF HasNonFinite(p)
              THEN TableFields(en_response.lines, p) = <<ZeroText>>
              ELSE TableOK(en_response.lines, p)

(***************************************************************************)
(* The encoder: the order of the results.                                  *)
(***************************************************************************)
\* the permutations of 1..n
Orders(n) ==
    { f \in [1..n -> 1..n] : \A i, k \in 1..n : f[i] = f[k] => i = k }

\* every result of the list is written, each to a cell of its own
DistinctCells(results, axes, x_grid, y_grid) ==
    /\ \A k \in 1..Len(results) :
          Locate(results[k], axes, x_grid, y_grid).outcome = "mapped"
    /\ \A i, k \in 1..Len(results) :
          (/\ Locate(results[i], axes, x_grid, y_grid).x_idx
                = Locate(results[k], axes, x_grid, y_grid).x_idx
           /\ Locate(results[i], axes, x_grid, y_grid).y_idx
                = Locate(results[k], axes, x_grid, y_grid).y_idx) => i = k

GridsBuilt == ep_pc = "loop" \/ ep_response.body = "results"

\* what the request asks of the axis of the outer and of the inner loop:
\* from, to and resolution after the defaults of pt_flash, and the offset
\* (273.15 for a temperature, which the loops take in kelvin)
AxisAsked(endpoint, data, loop) ==
    LET name == IF (endpoint = "calculate") = (loop = "outer")
                THEN YName(endpoint) ELSE "pressure"
        spec == IF endpoint = "calculate"
                THEN [range |-> IF name = "pressure" THEN data.pressure_range
                                ELSE data.temperature_range,
                      resolution |-> IF name = "pressure"
                                     THEN data.pressure_resolution
                                     ELSE data.temperature_resolution]
                ELSE data.variables[name]
        range == Get(spec, "range", EmptyDict)
    IN  [from |-> Get(range, "from", IF name = "pressure" THEN Num(1) ELSE Num(0)),
         to |-> Get(range, "to", Num(100)),
         resolution |-> Get(spec, "resolution",
                            IF name = "pressure" THEN Num(10) ELSE Num(5)),
         offset |-> IF name = "temperature" THEN Kelvin ELSE Num(0)]

\* the grid the handler built for that loop
GridOf(loop) == IF loop = "outer" THEN ep_outer ELSE ep_inner

StrictlyIncreasing(grid) ==
    \A k \in 1..(Len(grid) - 1) : FLt(grid[k], grid[k + 1])

\* resolution > 0 and to > from
ValidRange(asked) ==
    FLt(Num(0), asked.resolution) /\ FLt(asked.from, asked.to)

\* (to - from) / resolution
Steps(asked) == FDiv(FSub(asked.to, asked.from), asked.resolution)

EffectiveTo(endpoint, asked) ==
    IF endpoint = "pt_flash" /\ FLe(asked.to, asked.from)
    THEN FAdd(asked.from, asked.resolution) ELSE asked.to

\* C13: an equidistant grid is never empty and covers `to`: for
\* resolution > 0 its last element g satisfies to <= g < to + resolution.
C13_CoversTo ==
    GridsBuilt =>
        \A loop \in {"outer", "inner"} :
            LET asked == AxisAsked(ep_endpoint, ep_data, loop)
                grid == GridOf(loop)
                to == FAdd(EffectiveTo(ep_endpoint, asked), asked.offset)
            IN  FLt(Num(0), asked.resolution) =>
                    /\ grid # <<>>
                    /\ FLe(to, grid[Len(grid)])
                    /\ FLt(grid[Len(grid)], FAdd(to, asked.resolution))

\* the same for the ranges with to > from, and for all ranges of pt_flash
C13_CoversToValid ==
    GridsBuilt =>
        \A loop \in {"outer", "inner"} :
            LET asked == AxisAsked(ep_endpoint, ep_data, loop)
                grid == GridOf(loop)
                to == FAdd(EffectiveTo(ep_endpoint, asked), asked.offset)
            IN  (/\ FLt(Num(0), asked.resolution)
                 /\ ValidRange(asked) \/ ep_endpoint = "pt_flash") =>
                    /\ grid # <<>>
                    /\ FLe(to, grid[Len(grid)])
                    /\ FLt(grid[Len(grid)], FAdd(to, asked.resolution))

\* the range of an axis of the encoder, when the axis is given as a range
\* of numbers: from, to and resolution after their defaults
EncoderAsked(axis_vars, from0, to0, resolution0) ==
    LET given == Get(axis_vars, "range", EmptyDict)
        range == IF DOMAIN given = {} THEN [from |-> from0, to |-> to0] ELSE given
        resolution == Get(axis_vars, "resolution", resolution0)
    IN  [from |-> Get(range, "from", from0), to |-> Get(range, "to", to0),
         resolution |-> IF FLe(resolution, Num(0)) THEN resolution0 ELSE resolution]

\* the grid of the range [from, from + resolution]
RepairedGrid(asked, offset) ==
    << FAdd(asked.from, offset),
       FAdd(FAdd(asked.from, asked.resolution), offset) >>

\* C14: a range with to <= from is no error: in pt_flash and in the
\* encoder's own grids `to` becomes from + resolution of that axis before
\* the grid is built, so the grid is that of [from, from + resolution] and
\* is not empty.
C14_DegenerateRepaired ==
    /\ (GridsBuilt /\ ep_endpoint = "pt_flash") =>
          \A loop \in {"outer", "inner"} :
              LET asked == AxisAsked(ep_endpoint, ep_data, loop)
              IN  FLe(asked.to, asked.from) =>
                      GridOf(loop) = RepairedGrid(asked, asked.offset)
    /\ (en_pc \notin {"idle", "call"} /\ ~Has(en_x_vars, "values")) =>
          LET asked == EncoderAsked(en_x_vars, Num(1), Num(100), Num(10))
          IN  FLe(asked.to, asked.from) =>
                  en_x_grid = RepairedGrid(asked, Num(0))
    /\ (en_pc \notin {"idle", "call"} /\ ~Has(en_y_vars, "values")) =>
          LET asked == EncoderAsked(en_y_vars, Num(0), Num(100), Num(5))
          IN  FLe(asked.to, asked.from) =>
                  en_y_grid = RepairedGrid(asked, Num(0))

Prefixed ==
    [liquid_density |-> [phase |-> "liquid", base |-> "density"],
     vapor_density |-> [phase |-> "vapor", base |-> "density"],
     vapor_fraction |-> [phase |-> "vapor", base |-> "fraction"],
     liquid_viscosity |-> [phase |-> "liquid", base |-> "viscosity"],
     vapor_viscosity |-> [phase |-> "vapor", base |-> "viscosity"],
     liquid_cp |-> [phase |-> "liquid", base |-> "cp"],
     vapor_cp |-> [phase |-> "vapor", base |-> "cp"],
     liquid_enthalpy |-> [phase |-> "liquid", base |-> "enthalpy"],
     vapor_enthalpy |-> [phase |-> "vapor", base |-> "enthalpy"],
     liquid_thermal_conductivity |->
         [phase |-> "liquid", base |-> "thermal_conductivity"],
     vapor_thermal_conductivity |->
         [phase |-> "vapor", base |-> "thermal_conductivity"],
     liquid_entropy |-> [phase |-> "liquid", base |-> "entropy"],
     vapor_entropy |-> [phase |-> "vapor", base |-> "entropy"]]

\* the special cases among the keys without such a prefix: the field read
\* and the phase required
Special ==
    [dDdP_liquid |-> [phase |-> "liquid", field |-> "dDdP"],
     dDdP_vapor |-> [phase |-> "vapor", field |-> "dDdP"],
     dDdT_liquid |-> [phase |-> "liquid", field |-> "dDdT"],
     dDdT_vapor |-> [phase |-> "vapor", field |-> "dDdT"]]

\* the phase composition vector the two water keys are computed from
WaterVector == [water_liquid |-> "x", water_vapor |-> "y"]

\* the field of the result that answers the key: the first that applies
\* of the exact key, the key without its prefix, and the special cases; ""
\* when none does
AnsweringField(result, key, phase) ==
    IF Has(result, key) THEN key
    ELSE IF Has(Prefixed, key) /\ phase \in {Prefixed[key].phase, "two-phase"}
            /\ Has(result, Prefixed[key].base)
    THEN Prefixed[key].base
    ELSE IF Has(Special, key) /\ phase = Special[key].phase
            /\ Has(result, Special[key].field)
    THEN Special[key].field
    ELSE IF Has(WaterVector, key) /\ Has(result, WaterVector[key])
    THEN WaterVector[key]
    ELSE ""

\* a field's value without its {value, unit} envelope
Unwrapped(field) == IF Has(field, "value") THEN field.value ELSE field

\* the value is a specific heat that the sanitization replaces
BadCp(field, value) ==
    /\ field \in {"liquid_cp", "vapor_cp", "cp"}
    /\ IsNone(value) \/ FLt(CpLimit, FAbs(value))

\* C16: the value returned is that of the first field that applies: the
\* exact key whatever the phase, else for a liquid_ or vapor_ key the key
\* without its prefix when the phase is that of the prefix or two-phase,
\* else a special case, else None; the field's envelope is taken off, and a
\* specific heat out of range is given as the default.  A liquid_ key is
\* not answered by a base key in the vapor phase, nor a vapor_ key in the
\* liquid phase.
C16_ResolutionOrder ==
    ex_pc = "done" =>
        LET field == AnsweringField(ex_result, ex_key, ex_phase)
        IN  /\ field = "" => ex_value = None
            /\ (field # "" /\ field \notin {"x", "y"}) =>
                  IF BadCp(field, Unwrapped(ex_result[field]))
                  THEN ex_value = CpDefault
                  ELSE ex_value = Unwrapped(ex_result[field])
            /\ (/\ Has(Prefixed, ex_key) /\ ~Has(ex_result, ex_key)
                 /\ ex_phase \notin {Prefixed[ex_key].phase, "two-phase"}) =>
                  ex_value = None
            /\ ~Has(ex_value, "value")

\* calls have returned: the exact key of a result that also has the base
\* key, in the phase the prefix does not name
C16_Witness ==
    /\ ex_pc = "done"
    /\ ex_key = "liquid_density" /\ ex_phase = "vapor"
    /\ Has(ex_result, "liquid_density") /\ Has(ex_result, "density")
    /\ ex_value = Num(20)

\* the places of the components named WATER
NamedWater(composition) ==
    { i \in 1..Len(composition) : composition[i].fluid = WATER }

\* C18: water_liquid (water_vapor) is the entry of the vector x (y) at the
\* place of the component named WATER; a component whose name only
\* contains WATER is not taken for water.
C18_LiteralWater ==
    (/\ ex_pc = "done"
     /\ AnsweringField(ex_result, ex_key, ex_phase) \in {"x", "y"}
     /\ ex_key \in {"water_liquid", "water_vapor"}
     /\ IsList(Unwrapped(ex_result[WaterVector[ex_key]]))
     /\ Unwrapped(ex_result[WaterVector[ex_key]]).list # <<>>) =>
        LET vector == Unwrapped(ex_result[WaterVector[ex_key]]).list
            named == NamedWater(ex_composition)
            water_idx == CHOOSE i \in named : \A k \in named : i <= k
        IN  IF named = {} \/ water_idx > Len(vector) THEN ex_value = Num(0)
            ELSE ex_value = vector[water_idx]

(***************************************************************************)
(* The cells a mapped result writes.                                       *)
(***************************************************************************)
\* the table of the property with the key
TableOf(key) ==
    olga_properties[CHOOSE p \in 1..Len(olga_properties) :
                        olga_properties[p].key = key].name

\* the result the loop has just processed was mapped to a cell
LastMapped ==
    /\ en_k >= 1 /\ Len(en_cells) = en_k
    /\ en_cells[en_k].outcome = "mapped"

LastResult == en_results[en_k]

LastPhase == get_phase_from_result(LastResult)

LastCell == <<en_cells[en_k].x_idx.n, en_cells[en_k].y_idx.n>>

\* no result before the last was mapped to the cell of the last
FirstAtCell ==
    \A k \in 1..(en_k - 1) :
        en_cells[k].outcome = "mapped" =>
            <<en_cells[k].x_idx.n, en_cells[k].y_idx.n>> # LastCell

\* no field of the result answers the key in the phase of the result
Absent(result, key) ==
    AnsweringField(result, key, get_phase_from_result(result)) = ""

\* the properties the result has a number for are in their tables at the
\* cell, converted
Filled(tables, result, cell, composition, molar_mass) ==
    \A p \in 1..Len(olga_properties) :
        LET prop == olga_properties[p]
            value == extract_property_value(result, prop.key,
                                            get_phase_from_result(result),
                                            composition, molar_mass)
        IN  (/\ ~Absent(result, prop.key) /\ IsNum(value)
             /\ Convert(prop.converter, value, molar_mass).ok) =>
                tables[prop.name][cell] =
                    Convert(prop.converter, value, molar_mass).v

\* C17 as stated: for a property absent from a mapped result,
\* extract_property_value returns None and the cell of the point keeps the
\* table default 0, while the other properties of the point are filled.
C17_AbsentLeftZero ==
    (LastMapped /\ FirstAtCell) =>
        /\ \A p \in 1..Len(olga_properties) :
              Absent(LastResult, olga_properties[p].key) =>
                /\ extract_property_value(LastResult, olga_properties[p].key,
                                          LastPhase, en_composition,
                                          en_molar_mass) = None
                /\ en_st.tables[olga_properties[p].name][LastCell] = Num(0)
        /\ Filled(en_st.tables, LastResult, LastCell, en_composition,
                  en_molar_mass)

\* the cell of an absent property after the result: what it was before,
\* but for the gas mass fraction of a point of one phase
AbsentLeft(before, after, result, cell) ==
    \A p \in 1..Len(olga_properties) :
        LET prop == olga_properties[p]
            phase == get_phase_from_result(result)
        IN  Absent(result, prop.key) =>
                after[prop.name][cell] =
                    IF prop.key = "vapor_fraction" /\ phase = "vapor" THEN Num(1)
                    ELSE IF prop.key = "vapor_fraction" /\ phase = "liquid"
                    THEN Num(0)
                    ELSE before[prop.name][cell]

\* C17, amended: for a property absent from a mapped result,
\* extract_property_value returns None and the cell of the point is left as
\* it was (0 unless an earlier result wrote it), except that the gas mass
\* fraction is set to 1 for a vapor point and to 0 for a liquid point; the
\* other properties of the point are filled.
C17_AbsentLeftOrPhaseDefault ==
    [][ (en_k' = en_k + 1 /\ en_cells'[en_k'].outcome = "mapped") =>
          LET result == en_results[en_k']
              cell == <<en_cells'[en_k'].x_idx.n, en_cells'[en_k'].y_idx.n>>
          IN  /\ \A p \in 1..Len(olga_properties) :
                    Absent(result, olga_properties[p].key) =>
                        extract_property_value(result, olga_properties[p].key,
                            get_phase_from_result(result), en_composition,
                            en_molar_mass) = None
              /\ AbsentLeft(en_st.tables, en_st'.tables, result, cell)
              /\ Filled(en_st'.tables, result, cell, en_composition,
                        en_molar_mass) ]_vars

\* a vapor point without vapor_fraction and without surface tension has
\* been mapped: its gas mass fraction is 1, its surface tension 0, its
\* density written
C17_Witness ==
    /\ LastMapped /\ FirstAtCell
    /\ LastPhase = "vapor"
    /\ Absent(LastResult, "vapor_fraction")
    /\ Absent(LastResult, "surface_tension")
    /\ en_st.tables[TableOf("vapor_fraction")][LastCell] = Num(1)
    /\ en_st.tables[TableOf("surface_tension")][LastCell] = Num(0)
    /\ ~Absent(LastResult, "vapor_density")
    /\ en_st.tables[TableOf("vapor_density")][LastCell] # Num(0)

\* the number a field of the last result gives for the key; None when no
\* field answers or the field holds no number
LastRaw(key) ==
    LET field == AnsweringField(LastResult, key, LastPhase)
    IN  IF field = "" THEN None
        ELSE IF IsNum(Unwrapped(LastResult[field]))
        THEN Unwrapped(LastResult[field]) ELSE None

\* a specific heat per mole as one per kilogram
PerKilogram(x, molar_mass) == FDiv(FMul(x, Num(1000)), molar_mass)

\* the specific heat a table is to hold for a given one
SanitizedCp(cp) ==
    IF FLe(Num(0), PerKilogram(cp, en_molar_mass))
       /\ FLe(PerKilogram(cp, en_molar_mass), CpLimit)
    THEN PerKilogram(cp, en_molar_mass) ELSE CpDefault

\* C19: the specific heat written for a mapped result is the converted
\* value when that lies in [0, 1e6], and 1000.0 when the specific heat is
\* outside the range.
C19_SpecificHeatSanitized ==
    LastMapped =>
        \A key \in {"liquid_cp", "vapor_cp"} :
            IsNum(LastRaw(key)) =>
                en_st.tables[TableOf(key)][LastCell] = SanitizedCp(LastRaw(key))

\* the same for a specific heat per mole that is at most 1e6 in magnitude
C19_SanitizedWithinLimit ==
    LastMapped =>
        \A key \in {"liquid_cp", "vapor_cp"} :
            (IsNum(LastRaw(key)) /\ FLe(FAbs(LastRaw(key)), CpLimit)) =>
                en_st.tables[TableOf(key)][LastCell] = SanitizedCp(LastRaw(key))

\* the thermal conductivity a table is to hold for a given one
SanitizedConductivity(value) ==
    IF FLe(Num(0), value) /\ FLe(value, ConductivityLimit)
    THEN value ELSE ConductivityDefault

\* C20: the thermal conductivity written for a mapped result is the
\* extracted value when that lies in [0, 1e3], and 0.02 otherwise,
\* whichever field supplied it.
C20_ConductivitySanitized ==
    LastMapped =>
        \A key \in {"liquid_thermal_conductivity", "vapor_thermal_conductivity"} :
            IsNum(LastRaw(key)) =>
                en_st.tables[TableOf(key)][LastCell] =
                    SanitizedConductivity(LastRaw(key))

\* the same for a thermal conductivity that is not NaN
C20_SanitizedUnlessNaN ==
    LastMapped =>
        \A key \in {"liquid_thermal_conductivity", "vapor_thermal_conductivity"} :
            (IsNum(LastRaw(key)) /\ ~IsNaN(LastRaw(key))) =>
                en_st.tables[TableOf(key)][LastCell] =
                    SanitizedConductivity(LastRaw(key))

(***************************************************************************)
(* convert_vapor_fraction_to_mass: the flags and the unit interval.        *)
(***************************************************************************)
\* a number of [0, 1]
InUnitInterval(v) == IsNum(v) /\ FLe(Num(0), v) /\ FLe(v, Num(1))

\* the three flags and what each stands for
Flags == { <<Num(998), Num(1)>>, <<Num(-998), Num(0)>>, <<Num(999), Frac(1, 2)>> }

\* the flags are mapped, a number of [0, 1] is returned as it is, another
\* below 0 gives 0 and another above 1 gives 1
MapsRanges ==
    /\ \A flag \in Flags : cv_q = flag[1] => cv_out = flag[2]
    /\ (IsNum(cv_q) /\ cv_q \notin { flag[1] : flag \in Flags }) =>
          /\ FLt(cv_q, Num(0)) => cv_out = Num(0)
          /\ FLt(Num(1), cv_q) => cv_out = Num(1)
          /\ InUnitInterval(cv_q) => cv_out = cv_q

\* C21: 998 gives 1.0, -998 gives 0.0 and 999 gives 0.5; any other value
\* below 0 gives 0.0, any other above 1 gives 1.0, a value of [0, 1] is
\* returned unchanged; the result lies in [0, 1] for every input.
C21_VaporFractionInUnitInterval ==
    cv_pc = "done" => (MapsRanges /\ InUnitInterval(cv_out))

\* the same for every input but NaN
C21_InUnitIntervalUnlessNaN ==
    (cv_pc = "done" /\ cv_q # NaN) => (MapsRanges /\ InUnitInterval(cv_out))

(***************************************************************************)
(* The bubble line and the dew line.                                       *)
(***************************************************************************)
\* the largest and the smallest pressure of the grid, in Pa
MaxGridPressure == FMul(MaxOf(ln_pressures), PaPerBar)
MinGridPressure == FMul(MinOf(ln_pressures), PaPerBar)

\* both lines have been returned
LinesReturned == ln_pc = "done"

\* C22: the bubble line has one value for each point of the y grid; for a
\* grid whose largest pressure is positive the values fall along the y grid
\* and each is a positive fraction, at most the whole, of that pressure;
\* the line is the one built when there are no results.
C22_BubbleLine ==
    LinesReturned =>
        /\ Len(ln_bubble) = Len(ln_temps)
        /\ FLt(Num(0), MaxGridPressure) =>
              /\ \A i, j \in 1..Len(ln_bubble) :
                    i < j => FLt(ln_bubble[j], ln_bubble[i])
              /\ \A i \in 1..Len(ln_bubble) :
                    /\ FLt(Num(0), FDiv(ln_bubble[i], MaxGridPressure))
                    /\ FLe(FDiv(ln_bubble[i], MaxGridPressure), Num(1))
                    /\ FLe(ln_bubble[i], MaxGridPressure)
        /\ ln_bubble = create_bubble_line(ln_temps, Len(ln_pressures),
                                          ln_pressures, <<>>, "pt_flash").v

\* both lines returned for a y grid of several points, a grid of positive
\* pressures and results that hold a critical point
C22_Witness ==
    /\ LinesReturned
    /\ Len(ln_temps) >= 2
    /\ FLt(Num(0), MaxGridPressure)
    /\ ln_results # <<>> /\ Has(ln_results[1], "critical_pressure")
    /\ ln_bubble[1] = MaxGridPressure
    /\ FLt(ln_bubble[2], ln_bubble[1])

\* C23: the dew line has one value for each point of the y grid; every
\* value is positive when the smallest pressure of the grid is; each value
\* is a fraction of that pressure, and the fraction grows along the
\* traversal; the traversal takes the y grid in reverse, so the first value
\* is made for the last point of the y grid.
C23_DewLine ==
    LinesReturned =>
        /\ Len(ln_dew) = Len(ln_temps)
        /\ FLt(Num(0), MinGridPressure) =>
              \A i \in 1..Len(ln_dew) : FLt(Num(0), ln_dew[i])
        /\ MinGridPressure # Num(0) =>
              /\ \A i \in 1..Len(ln_dew) :
                    /\ FLt(Num(0), FDiv(ln_dew[i], MinGridPressure))
                    /\ FLe(FDiv(ln_dew[i], MinGridPressure), Num(1))
              /\ \A i, j \in 1..Len(ln_dew) :
                    i < j => FLt(FDiv(ln_dew[i], MinGridPressure),
                                 FDiv(ln_dew[j], MinGridPressure))
        /\ Len(ln_visited) = Len(ln_temps)
        /\ \A k \in 1..Len(ln_visited) :
              ln_visited[k] = ln_temps[Len(ln_temps) + 1 - k]

\* the dew line returned for a y grid of several points and a grid of
\* positive pressures: it starts at the last point of the y grid and rises
C23_Witness ==
    /\ LinesReturned
    /\ Len(ln_temps) >= 2
    /\ FLt(Num(0), MinGridPressure)
    /\ ln_visited[1] = ln_temps[Len(ln_temps)]
    /\ ln_visited[1] # ln_temps[1]
    /\ FLt(ln_dew[1], ln_dew[2])

(***************************************************************************)
(* format_olga_tab: a response for every call.                             *)
(***************************************************************************)
\* an entry of the composition has no fluid, no fraction, or a fraction
\* that is no number
MalformedComposition(composition) ==
    \E c \in 1..Len(composition) :
        \/ ~Has(composition[c], "fluid")
        \/ ~Has(composition[c], "fraction")
        \/ ~IsNum(Get(composition[c], "fraction", None))

\* the call is under way
Encoding == en_pc \in {"call", "header", "lines", "loop"}

\* the response is the error response when the output cannot be built (a
\* malformed composition, an empty pressure grid), the attachment otherwise
ResponseFits ==
    en_pc = "done" =>
        IF MalformedComposition(en_composition) \/ en_x_grid = <<>>
        THEN /\ en_response.status = 500
             /\ en_response.mimetype = "text/plain"
             /\ en_response.lines = <<>>
        ELSE /\ en_response.status = 200
             /\ en_response.mimetype = "text/plain"
             /\ en_response.filename = FileName(en_endpoint_type)
             /\ en_response.lines # <<>>

\* a call under way has a next step: the statements before the loop
\* complete, or the except branch of the function takes what they raise;
\* the loop over the results takes each result and ends
Proceeds ==
    /\ en_pc = "header" =>
          \/ HeaderLines(en_x_grid, en_y_grid, en_composition, en_endpoint_type).ok
          \/ ENABLED EncodeError
    /\ en_pc = "lines" =>
          \/ CriticalLines(en_x_grid, en_y_grid, en_results, en_endpoint_type).ok
          \/ ENABLED EncodeError
    /\ en_pc = "loop" => en_k <= Len(en_results)

LinesOrFallback ==
    IF AllFormattable(fg_values)
    THEN /\ Len(AllFields(fg_out)) = Len(fg_values)
         /\ \A i \in 1..Len(fg_values) :
               AllFields(fg_out)[i] = FormatValue(fg_values[i]).text
    ELSE fg_out = FallbackLines

\* C25: for every input format_grid_values returns the formatted lines of
\* all its values, or the single fallback line .000000E+00 when the
\* formatting of a value fails; it never returns the empty string.
C25_NeverEmpty ==
    fg_pc = "done" => (LinesOrFallback /\ fg_out # <<>>)

\* the same for every input that holds a value
C25_NeverEmptyOfValues ==
    (fg_pc = "done" /\ fg_values # <<>>) => (LinesOrFallback /\ fg_out # <<>>)

(***************************************************************************)
(* Requests that are structurally invalid.                                 *)
(***************************************************************************)
\* a required top-level field or a required variable is missing
MissingField(endpoint, data) ==
    IF endpoint = "calculate"
    THEN \E k \in 1..Len(CalculateRequired) : ~Has(data, CalculateRequired[k])
    ELSE \/ ~Has(data, "composition")
         \/ ~Has(data, "variables")
         \/ ~Has(data.variables, "pressure")
         \/ ~Has(data.variables, YName(endpoint))

\* an entry of the composition has no fraction
EntryWithoutFraction(data) ==
    /\ Has(data, "composition")
    /\ \E c \in 1..Len(data.composition) : ~Has(data.composition[c], "fraction")

\* the fractions do not sum to 1
SumOffOne(data) ==
    /\ Has(data, "composition")
    /\ ~EntryWithoutFraction(data)
    /\ OffOne(data.composition)

\* the request has been answered with a status of 400 to 499, and is
\* answered so if it has not been answered yet
Answered4xx ==
    /\ ep_pc \in {"recv", "responded"}
    /\ ep_pc = "responded" =>
          (400 <= ep_response.status /\ ep_response.status <= 499)

\* C26: every structurally invalid request (a required field or variable
\* missing, an entry of the composition without a fraction, fractions that
\* do not sum to 1) is answered with a 4xx response by each endpoint, never
\* with a 5xx response.
C26_InvalidAnswered4xx ==
    (\/ MissingField(ep_endpoint, ep_data)
     \/ EntryWithoutFraction(ep_data)
     \/ SumOffOne(ep_data)) => Answered4xx

\* the same for the requests whose composition entries all have a fraction
C26_InvalidAnswered4xxWithFractions ==
    (\/ MissingField(ep_endpoint, ep_data) /\ ~EntryWithoutFraction(ep_data)
     \/ SumOffOne(ep_data)) => Answered4xx

(***************************************************************************)
(* ph_flash: the six range and resolution parameters.                      *)
(***************************************************************************)
\* the six parameters of a ph_flash request that has both variables
SixParameters(data) ==
    LET pressure_range == Get(data.variables.pressure, "range", EmptyDict)
        enthalpy_range == Get(data.variables.enthalpy, "range", EmptyDict)
    IN  << Get(pressure_range, "from", None), Get(pressure_range, "to", None),
           Get(enthalpy_range, "from", None), Get(enthalpy_range, "to", None),
           Get(data.variables.pressure, "resolution", None),
           Get(data.variables.enthalpy, "resolution", None) >>

\* ph_flash has come to its check of the parameters and has answered
PhFlashAnswered ==
    /\ ep_endpoint = "ph_flash"
    /\ ep_pc = "responded"
    /\ ~MissingField(ep_endpoint, ep_data)

MissingParameters == "Missing range or resolution parameters"

\* C27: ph_flash answers 400 'Missing range or resolution parameters'
\* exactly when one of the six parameters is absent; a request with all six
\* present as numbers, 0 among them, passes the check.
C27_RejectedIffAbsent ==
    PhFlashAnswered =>
        ((ep_response.status = 400 /\ ep_response.error = MissingParameters)
            <=> \E k \in 1..6 : IsNone(SixParameters(ep_data)[k]))

\* the same for the requests none of whose six parameters is 0
C27_RejectedIffAbsentNonZero ==
    (PhFlashAnswered /\ \A k \in 1..6 : SixParameters(ep_data)[k] # Num(0)) =>
        ((ep_response.status = 400 /\ ep_response.error = MissingParameters)
            <=> \E k \in 1..6 : IsNone(SixParameters(ep_data)[k]))

(***************************************************************************)
(* The single-point requests of the sanity script.                         *)
(***************************************************************************)
\* the request is in the layout of the script, for one point
SinglePoint ==
    /\ Has(ep_data, "pressure_range") /\ Has(ep_data, "temperature_range")
    /\ ep_data.pressure_range["from"] = ep_data.pressure_range["to"]
    /\ ep_data.temperature_range["from"] = ep_data.temperature_range["to"]

\* the grids built have one point each, there is at most one result, and
\* it is the point asked for
OnePoint ==
    /\ (ep_pc = "loop" \/ (ep_pc = "responded" /\ ep_response.status = 200)) =>
          (Len(ep_outer) = 1 /\ Len(ep_inner) = 1)
    /\ Len(ep_results) <= 1
    /\ ep_results # <<>> =>
          /\ ep_results[1].pressure.value = ep_data.pressure_range["from"]
          /\ ep_results[1].temperature.value = ep_data.temperature_range["from"]

\* C28: a single-point request in the layout of the sanity script is
\* accepted by the endpoint it is posted to; one grid point is built on each
\* axis, the results hold at most one element and results[0] is the point
\* asked for.
C28_SinglePointAccepted ==
    SinglePoint =>
        /\ ep_pc = "responded" =>
              ~(400 <= ep_response.status /\ ep_response.status <= 499)
        /\ OnePoint

\* the same for the requests posted to /calculate
C28_SinglePointCalculate ==
    (SinglePoint /\ ep_endpoint = "calculate") =>
        /\ ep_pc = "responded" =>
              ~(400 <= ep_response.status /\ ep_response.status <= 499)
        /\ OnePoint
        /\ (ep_pc = "responded" /\ ep_failed = {} /\ ep_visited # <<>>) =>
              Len(ep_response.results) = 1

\* a request posted to /calculate was answered 200 with its one point
C28_Witness ==
    /\ SinglePoint
    /\ ep_endpoint = "calculate"
    /\ ep_pc = "responded"
    /\ ep_response.status = 200
    /\ Len(ep_response.results) = 1

(***************************************************************************)
(* pt_flash with response_format olga_tab: the table is built on the grids *)
(* of the flash loops.                                                     *)
(***************************************************************************)
\* format_olga_tab is at work for pt_flash and has taken its two grids
TabGridsTaken == ep_pc = "format" /\ en_pc \in {"header", "lines", "loop", "done"}

\* the result was mapped to a cell inside the table, the cell of the
\* pressure and the temperature it carries
InItsCell(result, at) ==
    /\ at.outcome = "mapped"
    /\ InBounds(at.x_idx.n, at.y_idx.n, Len(ep_outer), Len(ep_inner))
    /\ en_x_grid[at.x_idx.n + 1] = result.pressure.value
    /\ en_y_grid[at.y_idx.n + 1] = result.temperature.value

\* C29: when pt_flash answers with a table, the encoder works on the grids
\* the flash loops ran over (the temperatures in C), whatever the grid
\* type and whichever points failed; every result is mapped, inside the
\* table and to the cell of its (pressure, temperature) pair, so that the
\* count of mapped points is the number of results; the header names the
\* lengths of the two grids of the loops.
C29_TabOnLoopGrids ==
    TabGridsTaken =>
        /\ en_x_grid = ep_outer
        /\ en_y_grid = Celsius(ep_inner)
        /\ en_results = ep_results
        /\ fluid_desc(en_composition).ok
        /\ CriticalLines(en_x_grid, en_y_grid, en_results, en_endpoint_type).ok
        /\ \A k \in 1..Len(en_cells) : InItsCell(en_results[k], en_cells[k])
        /\ en_pc \in {"loop", "done"} => en_st.mapped_points = en_k
        /\ en_pc = "done" =>
              /\ en_st.mapped_points = Len(ep_results)
              /\ en_response.status = 200
        /\ en_head # <<>> =>
              en_head[1] = Text(HeaderLine(fluid_desc(ep_data.composition).v,
                                           Len(ep_outer), Len(ep_inner)))

\* a table was returned for grids from generate_grid, some points of which
\* had failed
C29_Witness ==
    /\ ep_pc = "responded"
    /\ ep_response.body = "olga_tab"
    /\ ~Equidistant(ep_data)
    /\ ep_failed # {}
    /\ Len(en_results) >= 2
    /\ en_st.mapped_points = Len(en_results)
    /\ \E k \in 1..Len(en_results) : en_results[k].index.n # k - 1 \/
          en_results[k].index.n # en_results[k].p_idx.n * Len(ep_inner)
                                  + en_results[k].t_idx.n

\* a table was returned for equidistant grids
C29_WitnessEquidistant ==
    /\ ep_pc = "responded"
    /\ ep_response.body = "olga_tab"
    /\ Equidistant(ep_data)
    /\ ep_failed # {}
    /\ Len(en_results) >= 2

(***************************************************************************)
(* Two results mapped to one cell.                                         *)
(***************************************************************************)
\* the step maps the next result of the list to a cell that an earlier
\* result was mapped to
MapsToTakenCell ==
    /\ en_k' = en_k + 1
    /\ en_cells' = Append(en_cells, en_cells'[en_k'])
    /\ en_cells'[en_k'].outcome = "mapped"
    /\ \E k \in 1..en_k :
          /\ en_cells[k].outcome = "mapped"
          /\ en_cells[k].x_idx = en_cells'[en_k'].x_idx
          /\ en_cells[k].y_idx = en_cells'[en_k'].y_idx

\* the tables differ at the cell only
OnlyCell(before, after, cell) ==
    \A name \in PropertyNames :
        \A other \in DOMAIN before[name] :
            other # cell => after[name][other] = before[name][other]

\* every absent property has at the cell the value it had before
AbsentKept(before, after, result, cell) ==
    \A p \in 1..Len(olga_properties) :
        Absent(result, olga_properties[p].key) =>
            after[olga_properties[p].name][cell]
                = before[olga_properties[p].name][cell]

\* C30 as stated: the results are processed in list order; a result mapped
\* to a cell that an earlier result was mapped to writes the properties it
\* supplies and leaves the properties it lacks as the earlier result wrote
\* them; no other cell changes.
C30_LaterResultOverwrites ==
    [][ MapsToTakenCell =>
          LET result == en_results[en_k']
              cell == <<en_cells'[en_k'].x_idx.n, en_cells'[en_k'].y_idx.n>>
          IN  /\ Filled(en_st'.tables, result, cell, en_composition,
                        en_molar_mass)
              /\ AbsentKept(en_st.tables, en_st'.tables, result, cell)
              /\ OnlyCell(en_st.tables, en_st'.tables, cell) ]_vars

\* C30, amended: the same, except that a vapor result without a vapor
\* fraction sets the gas mass fraction of the cell to 1 and a liquid one
\* to 0, whatever the earlier result wrote there.
C30_LaterResultOverwritesOrPhaseDefault ==
    [][ MapsToTakenCell =>
          LET result == en_results[en_k']
              cell == <<en_cells'[en_k'].x_idx.n, en_cells'[en_k'].y_idx.n>>
          IN  /\ Filled(en_st'.tables, result, cell, en_composition,
                        en_molar_mass)
              /\ AbsentLeft(en_st.tables, en_st'.tables, result, cell)
              /\ OnlyCell(en_st.tables, en_st'.tables, cell) ]_vars

\* two results were mapped to one cell; the surface tension there is the
\* one of the second, the liquid density the one of the first, which the
\* second lacks
C30_Witness ==
    /\ LastMapped /\ ~FirstAtCell /\ en_k = 2
    /\ ~Absent(LastResult, "surface_tension")
    /\ Absent(en_results[1], "surface_tension")
    /\ en_st.tables[TableOf("surface_tension")][LastCell] # Num(0)
    /\ Absent(LastResult, "liquid_density")
    /\ ~Absent(en_results[1], "liquid_density")
    /\ en_st.tables[TableOf("liquid_density")][LastCell] # Num(0)

\* a liquid result without a vapor fraction came second to a cell whose
\* gas mass fraction the first had written: it is 0 now
C30_WitnessDefault ==
    /\ LastMapped /\ ~FirstAtCell /\ en_k = 2
    /\ LastPhase = "liquid"
    /\ Absent(LastResult, "vapor_fraction")
    /\ ~Absent(en_results[1], "vapor_fraction")
    /\ en_st.tables[TableOf("vapor_fraction")][LastCell] = Num(0)

=============================================================================
